---- MODULE Spec2Model ----
(***************************************************************************)
(* Campus Planner: the task store (addTask, updateTask, deleteTask,        *)
(* completeTask, uncompleteTask, importData, saveTasks), the add/edit form *)
(* submit and the field validators (validateTitle, validateDuration,       *)
(* validateDueDate, validateTag, validatePriority, validateTask).          *)
(*                                                                         *)
(* A JavaScript string is a sequence of one-character strings, so that     *)
(* trim(), the regular expressions and parseInt are computed on the        *)
(* characters.  `undefined` is Absent and `null` is Null.                  *)
(***************************************************************************)
EXTENDS Integers, Sequences, FiniteSets, TLC

VARIABLES
    tasks,      \* localStorage["campusPlanner_tasks"], parsed: a sequence of task records
    version,    \* localStorage["campusPlanner_version"]: "none" or "1.0.0"
    clock,      \* Date.now(), in milliseconds since the page was opened
    last,       \* the last call made on the store: its name, arguments and result
    calls,      \* how many calls have been made on the store
    vin,        \* the argument handed to a validator (with the clock readings it makes)
    vout,       \* what the validator returned, "none" before the call
    page        \* the task list page: the rows rendered, the regex of that render, the search error text

vars == <<tasks, version, clock, last, calls, vin, vout, page>>

(***************************************************************************)
(* JavaScript values: tagged, so that a string, a number, null and         *)
(* undefined can stand in the same field                                   *)
(***************************************************************************)
Str(s) == [t |-> "string", s |-> s]
Num(n) == [t |-> "number", n |-> n]
Bool(b) == [t |-> "boolean", b |-> b]
Absent == [t |-> "undefined"]
Null == [t |-> "null"]

\* ToBoolean: what `!v` and `v || d` look at
Truthy(v) ==
    CASE v.t = "string" -> v.s # <<>>
      [] v.t = "number" -> v.n # 0
      [] v.t = "boolean" -> v.b
      [] OTHER -> FALSE

(***************************************************************************)
(* Characters and strings                                                  *)
(***************************************************************************)
UpperCase == <<"A","B","C","D","E","F","G","H","I","J","K","L","M",
               "N","O","P","Q","R","S","T","U","V","W","X","Y","Z">>
LowerCase == <<"a","b","c","d","e","f","g","h","i","j","k","l","m",
               "n","o","p","q","r","s","t","u","v","w","x","y","z">>
Digits == <<"0","1","2","3","4","5","6","7","8","9">>

Range(f) == {f[i] : i \in DOMAIN f}

\* \s of a JavaScript regular expression, which is also what trim() strips
IsSpace(c) == c \in {" ", "\t"}
DigitChars == Range(Digits)
LetterChars == Range(UpperCase) \cup Range(LowerCase)
UpperChars == Range(UpperCase)

\* \d
IsDigit(c) == c \in DigitChars
\* [A-Za-z]
IsLetter(c) == c \in LetterChars
\* \w
IsWordChar(c) == IsLetter(c) \/ IsDigit(c) \/ c = "_"

\* the canonical form the i flag compares characters by
Canon(c) == IF c \in UpperChars
            THEN LowerCase[CHOOSE i \in 1..26 : UpperCase[i] = c]
            ELSE c

DigitValue(c) == (CHOOSE i \in 1..10 : Digits[i] = c) - 1

\* String.prototype.trim
Trim(s) ==
    LET keep == {i \in 1..Len(s) : ~IsSpace(s[i])}
    IN  IF keep = {} THEN <<>>
        ELSE LET lo == CHOOSE i \in keep : \A j \in keep : i <= j
                 hi == CHOOSE i \in keep : \A j \in keep : j <= i
             IN  SubSeq(s, lo, hi)

\* \b at the gap before position i (1 .. Len(s)+1)
WordBoundary(s, i) ==
    LET before == i > 1 /\ IsWordChar(s[i - 1])
        after == i <= Len(s) /\ IsWordChar(s[i])
    IN  before # after

(***************************************************************************)
(* REGEX PATTERNS                                                          *)
(***************************************************************************)
\* TITLE_REGEX = /^\S+(?:\s\S+)*$/ : the automaton of the expression, run from
\* position i in state st ("start": a \S is due, "word": inside \S+)
RECURSIVE TitleRun(_, _, _)
TitleRun(s, i, st) ==
    IF i > Len(s) THEN st = "word"
    ELSE IF ~IsSpace(s[i]) THEN TitleRun(s, i + 1, "word")
    ELSE st = "word" /\ TitleRun(s, i + 1, "start")

TITLE_REGEX(s) == TitleRun(s, 1, "start")

\* DURATION_REGEX = /^[1-9]\d*$/
DURATION_REGEX(s) ==
    /\ Len(s) >= 1
    /\ IsDigit(s[1]) /\ s[1] # "0"
    /\ \A i \in 2..Len(s) : IsDigit(s[i])

\* DATE_REGEX = /^\d{4}-(0[1-9]|1[0-2])-(0[1-9]|[12]\d|3[01])$/
DATE_REGEX(s) ==
    /\ Len(s) = 10
    /\ \A i \in 1..4 : IsDigit(s[i])
    /\ s[5] = "-"
    /\ \/ s[6] = "0" /\ IsDigit(s[7]) /\ s[7] # "0"
       \/ s[6] = "1" /\ s[7] \in {"0", "1", "2"}
    /\ s[8] = "-"
    /\ \/ s[9] = "0" /\ IsDigit(s[10]) /\ s[10] # "0"
       \/ s[9] \in {"1", "2"} /\ IsDigit(s[10])
       \/ s[9] = "3" /\ s[10] \in {"0", "1"}

\* TAG_REGEX = /^[A-Za-z]+(?:[ -][A-Za-z]+)*$/
RECURSIVE TagRun(_, _, _)
TagRun(s, i, st) ==
    IF i > Len(s) THEN st = "word"
    ELSE IF IsLetter(s[i]) THEN TagRun(s, i + 1, "word")
    ELSE s[i] \in {" ", "-"} /\ st = "word" /\ TagRun(s, i + 1, "start")

TAG_REGEX(s) == TagRun(s, 1, "start")

\* DUPLICATE_WORD_REGEX = /\b(\w+)\s+\1\b/i, as test() uses it: some match exists.
\* The group is s[i..j], the \s+ is s[j+1..k], the back reference starts at k+1.
DUPLICATE_WORD_REGEX(s) ==
    \E i \in 1..Len(s) :
        /\ WordBoundary(s, i)
        /\ \E j \in i..Len(s) :
            /\ \A p \in i..j : IsWordChar(s[p])
            /\ \E k \in (j + 1)..Len(s) :
                LET n == j - i + 1 IN
                /\ \A p \in (j + 1)..k : IsSpace(s[p])
                /\ k + n <= Len(s)
                /\ \A p \in 0..(n - 1) : Canon(s[k + 1 + p]) = Canon(s[i + p])
                /\ WordBoundary(s, k + n + 1)

(***************************************************************************)
(* Number <-> string conversions                                           *)
(***************************************************************************)
\* the decimal digits of a natural number, as String(n) writes them
RECURSIVE NatToString(_)
NatToString(n) ==
    IF n < 10 THEN <<Digits[n + 1]>>
    ELSE Append(NatToString(n \div 10), Digits[(n % 10) + 1])

\* String(v) for the values the model passes
StringOf(v) ==
    CASE v.t = "string" -> v.s
      [] v.t = "number" -> IF v.n < 0 THEN <<"-">> \o NatToString(-v.n)
                           ELSE NatToString(v.n)
      [] v.t = "boolean" -> IF v.b THEN <<"t","r","u","e">> ELSE <<"f","a","l","s","e">>
      [] v.t = "null" -> <<"n","u","l","l">>
      [] OTHER -> <<"u","n","d","e","f","i","n","e","d">>

\* the value of the longest run of digits s starts with at position i, acc so far
RECURSIVE DigitsPrefix(_, _, _)
DigitsPrefix(s, i, acc) ==
    IF i > Len(s) \/ ~IsDigit(s[i]) THEN acc
    ELSE DigitsPrefix(s, i + 1, acc * 10 + DigitValue(s[i]))

\* parseInt(s, 10): leading white space, a sign, then the digits up to the first
\* character that is not one; NaN when there is no digit
parseInt(s) ==
    LET u == Trim(s)
        neg == Len(u) >= 1 /\ u[1] = "-"
        signed == Len(u) >= 1 /\ u[1] \in {"-", "+"}
        from == IF signed THEN 2 ELSE 1
    IN  IF from > Len(u) \/ ~IsDigit(u[from]) THEN [nan |-> TRUE, n |-> 0]
        ELSE [nan |-> FALSE,
              n |-> IF neg THEN -DigitsPrefix(u, from, 0) ELSE DigitsPrefix(u, from, 0)]

\* Number(s) on a run of digits (what split("-").map(Number) meets after DATE_REGEX)
ToNumber(s) == DigitsPrefix(s, 1, 0)

(***************************************************************************)
(* Date: a local date-time is a day number (0 = 1970-01-01) and the        *)
(* milliseconds into that day; the day arithmetic is ECMAScript's          *)
(***************************************************************************)
InLeapYear(y) == (y % 4 = 0 /\ y % 100 # 0) \/ y % 400 = 0

DayFromYear(y) ==
    365 * (y - 1970) + ((y - 1969) \div 4) - ((y - 1901) \div 100) + ((y - 1601) \div 400)

\* the day within the year on which month m (0..11) starts
MonthStart(m, leap) ==
    LET L == IF leap /\ m >= 2 THEN 1 ELSE 0
    IN  <<0, 31, 59, 90, 120, 151, 181, 212, 243, 273, 304, 334>>[m + 1] + L

\* MakeDay(year, month, date): month and date may lie outside their ranges
MakeDay(year, month, date) ==
    LET ym == year + (month \div 12)
        mn == month % 12
    IN  DayFromYear(ym) + MonthStart(mn, InLeapYear(ym)) + date - 1

YearFromDay(n) ==
    LET a == n \div 366
        b == n \div 365
        lo == 1970 + (IF a < b THEN a ELSE b) - 1
        hi == 1970 + (IF a < b THEN b ELSE a) + 1
    IN  CHOOSE y \in lo..hi : DayFromYear(y) <= n /\ n < DayFromYear(y + 1)

MonthFromDay(n) ==
    LET y == YearFromDay(n)
        w == n - DayFromYear(y)
    IN  CHOOSE m \in 0..11 :
            /\ MonthStart(m, InLeapYear(y)) <= w
            /\ m < 11 => w < MonthStart(m + 1, InLeapYear(y))

DateFromDay(n) ==
    LET y == YearFromDay(n)
    IN  n - DayFromYear(y) - MonthStart(MonthFromDay(n), InLeapYear(y)) + 1

\* new Date(year, monthIndex, day): local midnight; a year 0..99 means 1900+year
NewDate(year, monthIndex, day) ==
    LET yr == IF 0 <= year /\ year <= 99 THEN 1900 + year ELSE year
    IN  [day |-> MakeDay(yr, monthIndex, day), ms |-> 0]

getFullYear(D) == YearFromDay(D.day)
getMonth(D) == MonthFromDay(D.day)
getDate(D) == DateFromDay(D.day)

\* D.setFullYear(y): month, day of month and time of day are kept
setFullYear(D, y) == [day |-> MakeDay(y, getMonth(D), getDate(D)), ms |-> D.ms]

\* D.setHours(0, 0, 0, 0)
setHoursZero(D) == [day |-> D.day, ms |-> 0]

\* D1 < D2 on the time values
DateLess(D1, D2) == D1.day < D2.day \/ (D1.day = D2.day /\ D1.ms < D2.ms)

(***************************************************************************)
(* VALIDATION FUNCTIONS                                                    *)
(***************************************************************************)
Valid == [valid |-> TRUE, error |-> ""]
Invalid(msg) == [valid |-> FALSE, error |-> msg]

\* vout before the call, and after it
NoCall == [called |-> FALSE]

\* the task list page before anything is rendered into it
BlankPage == [rows |-> <<>>, searchRegex |-> Null, searchError |-> ""]
Called(r) == [called |-> TRUE, valid |-> r.valid, error |-> r.error]

\* validateTitle with the lower length limit off by one (<= 3 for < 3)
validateTitle_mut(title) ==
    IF ~Truthy(title) \/ title.t # "string" THEN Invalid("Title is required")
    ELSE LET trimmed == Trim(title.s) IN
         IF Len(trimmed) <= 3 THEN Invalid("Title must be at least 3 characters")
         ELSE IF Len(trimmed) > 100 THEN Invalid("Title must not exceed 100 characters")
         ELSE IF title.s # trimmed
              THEN Invalid("Title cannot have leading or trailing spaces")
         ELSE IF ~TITLE_REGEX(title.s)
              THEN Invalid("Title cannot contain consecutive spaces")
         ELSE IF DUPLICATE_WORD_REGEX(title.s)
              THEN Invalid("Title contains duplicate words")
         ELSE Valid

\* validateTitle with the comparison of the raw and the trimmed string moved before
\* the two length checks
validateTitle_swap(title) ==
    IF ~Truthy(title) \/ title.t # "string" THEN Invalid("Title is required")
    ELSE LET trimmed == Trim(title.s) IN
         IF title.s # trimmed
         THEN Invalid("Title cannot have leading or trailing spaces")
         ELSE IF Len(trimmed) < 3 THEN Invalid("Title must be at least 3 characters")
         ELSE IF Len(trimmed) > 100 THEN Invalid("Title must not exceed 100 characters")
         ELSE IF ~TITLE_REGEX(title.s)
              THEN Invalid("Title cannot contain consecutive spaces")
         ELSE IF DUPLICATE_WORD_REGEX(title.s)
              THEN Invalid("Title contains duplicate words")
         ELSE Valid

validateTitle(title) ==
    IF ~Truthy(title) \/ title.t # "string" THEN Invalid("Title is required")
    ELSE LET trimmed == Trim(title.s) IN
         IF Len(trimmed) < 3 THEN Invalid("Title must be at least 3 characters")
         ELSE IF Len(trimmed) > 100 THEN Invalid("Title must not exceed 100 characters")
         ELSE IF title.s # trimmed
              THEN Invalid("Title cannot have leading or trailing spaces")
         ELSE IF ~TITLE_REGEX(title.s)
              THEN Invalid("Title cannot contain consecutive spaces")
         ELSE IF DUPLICATE_WORD_REGEX(title.s)
              THEN Invalid("Title contains duplicate words")
         ELSE Valid

\* validateDuration with the upper limit off by one (>= 1440 for > 1440)
validateDuration_mut(duration) ==
    IF duration = Null \/ duration = Absent \/ duration = Str(<<>>)
    THEN Invalid("Duration is required")
    ELSE LET durationStr == Trim(StringOf(duration))
             numValue == parseInt(durationStr)
         IN  IF ~DURATION_REGEX(durationStr)
             THEN Invalid("Duration must be a positive number (e.g., 120)")
             ELSE IF numValue.nan \/ numValue.n <= 0
                  THEN Invalid("Duration must be greater than 0")
             ELSE IF numValue.n >= 1440
                  THEN Invalid("Duration cannot exceed 24 hours (1440 minutes)")
             ELSE Valid

validateDuration(duration) ==
    IF duration = Null \/ duration = Absent \/ duration = Str(<<>>)
    THEN Invalid("Duration is required")
    ELSE LET durationStr == Trim(StringOf(duration))
             numValue == parseInt(durationStr)
         IN  IF ~DURATION_REGEX(durationStr)
             THEN Invalid("Duration must be a positive number (e.g., 120)")
             ELSE IF numValue.nan \/ numValue.n <= 0
                  THEN Invalid("Duration must be greater than 0")
             ELSE IF numValue.n > 1440
                  THEN Invalid("Duration cannot exceed 24 hours (1440 minutes)")
             ELSE Valid

\* now1 and now2 are what `new Date()` returns where oneYearAgo and where
\* twoYearsFromNow are built (the reading kept in `today` is never compared)
validateDueDate(date, now1, now2) ==
    IF ~Truthy(date) \/ date.t # "string" THEN Invalid("Due date is required")
    ELSE LET trimmed == Trim(date.s) IN
         IF ~DATE_REGEX(trimmed) THEN Invalid("Date must be in YYYY-MM-DD format")
         ELSE LET year == ToNumber(SubSeq(trimmed, 1, 4))
                  month == ToNumber(SubSeq(trimmed, 6, 7))
                  day == ToNumber(SubSeq(trimmed, 9, 10))
                  dateObj == NewDate(year, month - 1, day)
                  oneYearAgo == setHoursZero(setFullYear(now1, getFullYear(now1) - 1))
                  twoYearsFromNow == setFullYear(now2, getFullYear(now2) + 2)
              IN  IF \/ getFullYear(dateObj) # year
                     \/ getMonth(dateObj) # month - 1
                     \/ getDate(dateObj) # day
                  THEN Invalid("Invalid date (e.g., Feb 30 does not exist)")
                  ELSE IF DateLess(dateObj, oneYearAgo)
                       THEN Invalid("Date cannot be more than 1 year in the past")
                  ELSE IF DateLess(twoYearsFromNow, dateObj)
                       THEN Invalid("Date cannot be more than 2 years in the future")
                  ELSE Valid

validateTag(tag) ==
    IF ~Truthy(tag) \/ tag.t # "string" THEN Invalid("Tag is required")
    ELSE LET trimmed == Trim(tag.s) IN
         IF Len(trimmed) < 3 THEN Invalid("Tag must be at least 3 characters")
         ELSE IF Len(trimmed) > 30 THEN Invalid("Tag must not exceed 30 characters")
         ELSE IF ~TAG_REGEX(trimmed)
              THEN Invalid("Tag can only contain letters, spaces, or hyphens")
         ELSE Valid

validPriorities == {<<"H","i","g","h">>, <<"M","e","d","i","u","m">>, <<"L","o","w">>}

validatePriority(priority) ==
    IF ~Truthy(priority) \/ priority.t # "string" \/ priority.s \notin validPriorities
    THEN Invalid("Priority must be High, Medium, or Low")
    ELSE Valid

\* errors.push({ field, message }) when the field's result is not valid
PushError(errors, field, result) ==
    IF result.valid THEN errors
    ELSE Append(errors, [field |-> field, message |-> result.error])

\* validateTask with the duration and dueDate checks in the other order
validateTask_mut(task, now1, now2) ==
    IF task \in {Null, Absent} THEN [threw |-> TRUE, valid |-> FALSE, errors |-> <<>>]
    ELSE
    LET e1 == PushError(<<>>, "title", validateTitle(task.title))
        e2 == PushError(e1, "dueDate", validateDueDate(task.dueDate, now1, now2))
        e3 == PushError(e2, "duration", validateDuration(task.duration))
        e4 == PushError(e3, "tag", validateTag(task.tag))
        errors == IF Truthy(task.priority)
                  THEN PushError(e4, "priority", validatePriority(task.priority))
                  ELSE e4
    IN  [threw |-> FALSE, valid |-> Len(errors) = 0, errors |-> errors]

\* validateTask: reading `task.title` of null or undefined throws a TypeError, which
\* nothing in the function catches; any other value has (possibly absent) properties
validateTask(task, now1, now2) ==
    IF task \in {Null, Absent} THEN [threw |-> TRUE, valid |-> FALSE, errors |-> <<>>]
    ELSE
    LET e1 == PushError(<<>>, "title", validateTitle(task.title))
        e2 == PushError(e1, "duration", validateDuration(task.duration))
        e3 == PushError(e2, "dueDate", validateDueDate(task.dueDate, now1, now2))
        e4 == PushError(e3, "tag", validateTag(task.tag))
        errors == IF Truthy(task.priority)
                  THEN PushError(e4, "priority", validatePriority(task.priority))
                  ELSE e4
    IN  [threw |-> FALSE, valid |-> Len(errors) = 0, errors |-> errors]

\* App.validateTaskForm: the form's own copy of the same sequence of checks
validateTaskForm(data, now1, now2) ==
    LET e1 == PushError(<<>>, "title", validateTitle(data.title))
        e2 == PushError(e1, "duration", validateDuration(data.duration))
        e3 == PushError(e2, "dueDate", validateDueDate(data.dueDate, now1, now2))
        e4 == PushError(e3, "tag", validateTag(data.tag))
    IN  IF Truthy(data.priority)
        THEN PushError(e4, "priority", validatePriority(data.priority))
        ELSE e4

(***************************************************************************)
(* TASKS STORAGE                                                           *)
(***************************************************************************)
MaxTasks == 2
MaxClock == 1
MaxRandom == 1
MaxCalls == 3

Fields == {"id", "title", "dueDate", "duration", "tag", "priority", "location",
           "status", "completed", "completedAt", "createdAt", "updatedAt"}

\* an object literal: the keys it does not name are absent
Obj(r) == [f \in Fields |-> IF f \in DOMAIN r THEN r[f] ELSE Absent]

\* { ...base, ...over }
Spread(base, over) == [f \in Fields |-> IF over[f] # Absent THEN over[f] ELSE base[f]]

\* `new Date()` while the store is in use: clock milliseconds into 2026-11-04
Now == [day |-> MakeDay(2026, 10, 4), ms |-> 1 + clock]

\* new Date().toISOString()
toISOString(c) == Str(<<"T">> \o NatToString(c))

\* generateId: `${prefix}_${timestamp}_${random}`
generateId(timestamp, random) ==
    Str(<<"t","a","s","k","_">> \o NatToString(timestamp) \o <<"_">> \o NatToString(random))

Array(items) == [isArray |-> TRUE, items |-> items]
NotAnArray == [isArray |-> FALSE]

\* What the two localStorage.setItem calls of saveTasks do when the store answers w:
\* "ok", "failTasks" (the first setItem throws) or "failVersion" (the second does).
saveTasksBody(arg, w) ==
    IF ~arg.isArray THEN [threw |-> TRUE, tasks |-> tasks, version |-> version]
    ELSE IF w = "ok" THEN [threw |-> FALSE, tasks |-> arg.items, version |-> "1.0.0"]
    ELSE IF w = "failVersion" THEN [threw |-> TRUE, tasks |-> arg.items, version |-> version]
    ELSE [threw |-> TRUE, tasks |-> tasks, version |-> version]

\* saveTasks without its try/catch
saveTasks_mut(arg, w) ==
    LET b == saveTasksBody(arg, w)
    IN  [threw |-> b.threw, ret |-> ~b.threw, tasks |-> b.tasks, version |-> b.version]

\* saveTasks: the body inside try, `return false` in catch
saveTasks(arg, w) ==
    LET b == saveTasksBody(arg, w)
    IN  [threw |-> FALSE, ret |-> ~b.threw, tasks |-> b.tasks, version |-> b.version]

\* tasks.findIndex((t) => t.id === id): 0 stands for -1
findIndex(list, id) ==
    IF \E i \in 1..Len(list) : list[i].id = id
    THEN CHOOSE i \in 1..Len(list) :
            list[i].id = id /\ \A j \in 1..(i - 1) : list[j].id # id
    ELSE 0

\* tasks.filter((t) => t.id !== id)
RECURSIVE filterOut(_, _)
filterOut(list, id) ==
    IF list = <<>> THEN <<>>
    ELSE IF Head(list).id # id THEN <<Head(list)>> \o filterOut(Tail(list), id)
    ELSE filterOut(Tail(list), id)

\* the task addTask builds from taskData
newTask(taskData, random) ==
    [Spread(Obj([id |-> generateId(clock, random)]), taskData) EXCEPT
        !.status = IF Truthy(taskData.status) THEN taskData.status
                   ELSE Str(<<"T","o","d","o">>),
        !.completed = Bool(FALSE),
        !.createdAt = toISOString(clock),
        !.updatedAt = toISOString(clock)]

\* addTask as a function of the store: what it writes and what it returns. An
\* exception thrown inside is caught and null is returned.
addTask(taskData, random, w) ==
    LET task == newTask(taskData, random)
        s == saveTasks(Array(Append(tasks, task)), w)
    IN  [tasks |-> s.tasks, version |-> s.version,
         ret |-> IF ~s.threw /\ s.ret THEN "task" ELSE "null"]

\* updateTask that builds the record from updates alone (`...tasks[index]` left out)
updateTask_mut(id, updates, w) ==
    LET index == findIndex(tasks, id)
        updated == Spread(updates, Obj([updatedAt |-> toISOString(clock)]))
        s == saveTasks(Array([tasks EXCEPT ![index] = updated]), w)
    IN  IF index = 0 THEN [tasks |-> tasks, version |-> version, ret |-> "null"]
        ELSE [tasks |-> s.tasks, version |-> s.version,
              ret |-> IF ~s.threw /\ s.ret THEN "task" ELSE "null"]

\* updateTask as a function of the store
updateTask(id, updates, w) ==
    LET index == findIndex(tasks, id)
        updated == Spread(Spread(tasks[index], updates),
                          Obj([updatedAt |-> toISOString(clock)]))
        s == saveTasks(Array([tasks EXCEPT ![index] = updated]), w)
    IN  IF index = 0 THEN [tasks |-> tasks, version |-> version, ret |-> "null"]
        ELSE [tasks |-> s.tasks, version |-> s.version,
              ret |-> IF ~s.threw /\ s.ret THEN "task" ELSE "null"]

\* deleteTask that removes the first task with the id only
deleteTask_mut(id, w) ==
    LET index == findIndex(tasks, id)
        filtered == SubSeq(tasks, 1, index - 1) \o SubSeq(tasks, index + 1, Len(tasks))
        s == saveTasks(Array(filtered), w)
    IN  IF index = 0
        THEN [tasks |-> tasks, version |-> version, ret |-> "false"]
        ELSE [tasks |-> s.tasks, version |-> s.version,
              ret |-> IF ~s.threw /\ s.ret THEN "true" ELSE "false"]

\* deleteTask as a function of the store
deleteTask(id, w) ==
    LET filtered == filterOut(tasks, id)
        s == saveTasks(Array(filtered), w)
    IN  IF Len(filtered) = Len(tasks)
        THEN [tasks |-> tasks, version |-> version, ret |-> "false"]
        ELSE [tasks |-> s.tasks, version |-> s.version,
              ret |-> IF ~s.threw /\ s.ret THEN "true" ELSE "false"]

completeTask(id, w) ==
    updateTask(id, Obj([status |-> Str(<<"C","o","m","p","l","e","t","e","d">>),
                        completed |-> Bool(TRUE),
                        completedAt |-> toISOString(clock)]), w)

uncompleteTask(id, w) ==
    updateTask(id, Obj([status |-> Str(<<"T","o","d","o">>),
                        completed |-> Bool(FALSE),
                        completedAt |-> Null]), w)

requiredFields == <<"id", "title", "dueDate", "duration", "tag">>

\* importData as a function of the store (data.settings is absent in what is imported)
importData(data, w) ==
    LET s == saveTasks(Array(data.tasks.items), w) IN
    IF ~data.isObject THEN [tasks |-> tasks, version |-> version, ret |-> "failure"]
    ELSE IF ~data.tasks.isArray
         THEN [tasks |-> tasks, version |-> version, ret |-> "failure"]
    ELSE IF \E i \in 1..Len(data.tasks.items) : \E k \in 1..Len(requiredFields) :
                data.tasks.items[i][requiredFields[k]] = Absent
         THEN [tasks |-> tasks, version |-> version, ret |-> "failure"]
    ELSE IF s.threw \/ ~s.ret
         THEN [tasks |-> s.tasks, version |-> s.version, ret |-> "failure"]
    ELSE [tasks |-> s.tasks, version |-> s.version, ret |-> "success"]

(***************************************************************************)
(* ADD/EDIT TASK PAGE                                                      *)
(***************************************************************************)
\* the record handleTaskSubmit reads from the form's inputs
formData(form) ==
    Obj([title |-> Str(Trim(form.title)),
         dueDate |-> Str(Trim(form.dueDate)),
         duration |-> Str(Trim(form.duration)),
         tag |-> Str(form.tag),
         priority |-> Str(form.priority),
         location |-> Str(Trim(form.location))])

\* handleTaskSubmit from `if (errors.length > 0)` on, as a function of the store:
\* data is the formData it read and errors what validateTaskForm(formData) returned;
\* nothing is saved when the form has errors
handleTaskSubmit(editingId, data, errors, random, w) ==
    IF Len(errors) > 0 THEN [tasks |-> tasks, version |-> version, ret |-> "errors"]
    ELSE IF Truthy(editingId) THEN updateTask(editingId, data, w)
    ELSE addTask(data, random, w)

(***************************************************************************)
(* What the callers pass                                                   *)
(***************************************************************************)
GoodTask ==
    [title |-> Str(<<"R","e","a","d">>),
     dueDate |-> Str(<<"2","0","2","6","-","1","2","-","0","1">>),
     duration |-> Str(<<"3","0">>),
     tag |-> Str(<<"S","t","u","d","y">>),
     priority |-> Str(<<"H","i","g","h">>)]

Completed == Str(<<"C","o","m","p","l","e","t","e","d">>)
Todo == Str(<<"T","o","d","o">>)

\* an id chosen by the caller (or written in an import file), not by generateId
CallerId == Str(<<"x","1">>)

\* the taskData records handed to addTask
TaskDataPool ==
    { Obj(GoodTask),
      Obj([GoodTask EXCEPT !.title = Str(<<"a","b">>)]),
      [Obj(GoodTask) EXCEPT !.status = Completed],
      [Obj(GoodTask) EXCEPT !.id = CallerId] }

\* the updates records handed to updateTask
UpdatesPool ==
    { Obj([tag |-> Str(<<"H","o","m","e">>)]),
      Obj([status |-> Completed]),
      Obj([id |-> CallerId]) }

\* a task record as an export file holds it
Exported(t, status, completed) ==
    [Spread(Obj(t), Obj([id |-> CallerId])) EXCEPT
        !.status = status, !.completed = completed,
        !.createdAt = toISOString(0), !.updatedAt = toISOString(0)]

\* the parsed files handed to importData
ImportPool ==
    { [isObject |-> FALSE],
      [isObject |-> TRUE, tasks |-> NotAnArray],
      [isObject |-> TRUE, tasks |-> Array(<<>>)],
      [isObject |-> TRUE, tasks |-> Array(<<Exported(GoodTask, Completed, Bool(TRUE))>>)],
      [isObject |-> TRUE,
       tasks |-> Array(<<[Exported(GoodTask, Todo, Bool(FALSE)) EXCEPT !.tag = Absent]>>)],
      [isObject |-> TRUE,
       tasks |-> Array(<<Exported([GoodTask EXCEPT
                                     !.dueDate = Str(<<"2","0","2","4","-","0","2","-","3","0">>),
                                     !.duration = Str(<<"a","b","c">>)],
                                  Todo, Bool(TRUE))>>)] }

\* what the user typed into the form
FormPool ==
    { [title |-> <<" ","P","l","a","n"," ">>, dueDate |-> <<"2","0","2","6","-","1","1","-","3","0">>,
       duration |-> <<"4","5">>, tag |-> <<"L","a","b","-","w","o","r","k">>,
       priority |-> <<"L","o","w">>, location |-> <<>>],
      [title |-> <<"g","o"," ","g","o">>, dueDate |-> <<"2","0","2","6","-","1","1","-","3","0">>,
       duration |-> <<"4","5">>, tag |-> <<"L","a","b">>,
       priority |-> <<"L","o","w">>, location |-> <<>>] }

WriteOutcomes == {"ok", "failTasks", "failVersion"}

MissingId == Str(<<"t","a","s","k","_","n","o","n","e">>)
Ids == {tasks[i].id : i \in 1..Len(tasks)} \cup {MissingId}

(***************************************************************************)
(* The store in use: one action per call                                   *)
(***************************************************************************)
Init ==
    /\ tasks = <<>>
    /\ version = "none"
    /\ clock = 0
    /\ last = [op |-> "none", ret |-> "none"]
    /\ calls = 0
    /\ vin = [fn |-> "none"]
    /\ vout = NoCall
    /\ page = BlankPage

\* a millisecond passes
Tick ==
    /\ clock < MaxClock
    /\ clock' = clock + 1
    /\ last' = [op |-> "tick", ret |-> "none"]
    /\ UNCHANGED <<tasks, version, calls, vin, vout, page>>

\* the call op stores r.tasks and r.version and returns r.ret
Call(op, r) ==
    /\ calls < MaxCalls
    /\ calls' = calls + 1
    /\ tasks' = r.tasks
    /\ version' = r.version
    /\ last' = [op |-> op, ret |-> r.ret]
    /\ UNCHANGED <<clock, vin, vout, page>>

AddTask ==
    /\ Len(tasks) < MaxTasks
    /\ \E taskData \in TaskDataPool, random \in 0..MaxRandom, w \in WriteOutcomes :
            Call("addTask", addTask(taskData, random, w))

UpdateTask ==
    \E id \in Ids, updates \in UpdatesPool, w \in WriteOutcomes :
        Call("updateTask", updateTask(id, updates, w))

DeleteTask ==
    \E id \in Ids, w \in WriteOutcomes :
        Call("deleteTask", deleteTask(id, w))

CompleteTask ==
    \E id \in Ids, w \in WriteOutcomes :
        Call("completeTask", completeTask(id, w))

UncompleteTask ==
    \E id \in Ids, w \in WriteOutcomes :
        Call("uncompleteTask", uncompleteTask(id, w))

ImportData ==
    \E data \in ImportPool, w \in WriteOutcomes :
        Call("importData", importData(data, w))

\* saveTasks called by itself, with the stored tasks or with something that is no array
SaveTasks ==
    \E arg \in {Array(tasks), NotAnArray}, w \in WriteOutcomes :
        LET s == saveTasks(arg, w) IN
        Call("saveTasks", [tasks |-> s.tasks, version |-> s.version,
                           ret |-> IF s.threw THEN "threw"
                                   ELSE IF s.ret THEN "true" ELSE "false"])

HandleTaskSubmit ==
    \E form \in FormPool :
        LET data == formData(form)
            errors == validateTaskForm(data, Now, Now)
        IN  \E editingId \in Ids \cup {Null}, random \in 0..MaxRandom, w \in WriteOutcomes :
                /\ Truthy(editingId) \/ Len(tasks) < MaxTasks
                /\ Call("handleTaskSubmit",
                        handleTaskSubmit(editingId, data, errors, random, w))

Next ==
    \/ Tick
    \/ AddTask
    \/ UpdateTask
    \/ DeleteTask
    \/ CompleteTask
    \/ UncompleteTask
    \/ ImportData
    \/ SaveTasks
    \/ HandleTaskSubmit

Spec == Init /\ [][Next]_vars

(***************************************************************************)
(* Claims about the store                                                  *)
(***************************************************************************)
\* C1: every stored task has completed == true exactly when status == "Completed".
C1_CompletedIffStatus ==
    \A i \in 1..Len(tasks) :
        (tasks[i].completed = Bool(TRUE)) <=> (tasks[i].status = Completed)

\* C2: every stored task passes all the field validators (title, duration, dueDate,
\* tag, and priority when present).
C2_StoredTasksValid ==
    \A i \in 1..Len(tasks) : validateTask(tasks[i], Now, Now).valid

IsGeneratedId(id) ==
    \E c \in 0..MaxClock, r \in 0..MaxRandom : id = generateId(c, r)

\* C4: the ids addTask generates are pairwise distinct among the stored tasks, also
\* for tasks added within the same millisecond.
C4_IdsDistinct ==
    \A i, j \in 1..Len(tasks) :
        (i # j /\ IsGeneratedId(tasks[i].id)) => tasks[i].id # tasks[j].id

\* C5: a task keeps the id it was created with: updateTask, completeTask and
\* uncompleteTask leave every id as it was, and the task addTask stores carries the
\* generated id.
C5_IdImmutable ==
    [][ /\ last'.op \in {"updateTask", "completeTask", "uncompleteTask"} =>
             /\ Len(tasks') = Len(tasks)
             /\ \A i \in 1..Len(tasks) : tasks'[i].id = tasks[i].id
        /\ (last'.op = "addTask" /\ last'.ret = "task") =>
             \E r \in 0..MaxRandom : tasks'[Len(tasks')].id = generateId(clock, r)
      ]_vars

\* tasks and tasks' differ in at most one task, and there in the fields of `allowed` only
ChangesOnly(allowed) ==
    /\ Len(tasks') = Len(tasks)
    /\ \A i \in 1..Len(tasks) : \A f \in Fields \ allowed : tasks'[i][f] = tasks[i][f]
    /\ \A i, j \in 1..Len(tasks) :
           (tasks'[i] # tasks[i] /\ tasks'[j] # tasks[j]) => i = j

\* C3 as claimed: completeTask and uncompleteTask change only the status, completed
\* and completedAt of one task; every other field, every other task and the order
\* stay as they were.
C3_ChangesThreeFields ==
    [][ last'.op \in {"completeTask", "uncompleteTask"} =>
            ChangesOnly({"status", "completed", "completedAt"}) ]_vars

\* C3 amended: completeTask and uncompleteTask change only the status, completed,
\* completedAt and updatedAt of one task; every other field, every other task and
\* the order stay as they were; a call that returns the task leaves it completed
\* (status "Completed", completed true) or restored (status "Todo", completed false,
\* completedAt null), with updatedAt the time of the call.
C3_ChangesFourFields ==
    [][ /\ last'.op \in {"completeTask", "uncompleteTask"} =>
             ChangesOnly({"status", "completed", "completedAt", "updatedAt"})
        /\ (last'.op = "completeTask" /\ last'.ret = "task") =>
             \E i \in 1..Len(tasks) :
                 /\ tasks'[i].status = Completed /\ tasks'[i].completed = Bool(TRUE)
                 /\ tasks'[i].completedAt = toISOString(clock)
                 /\ tasks'[i].updatedAt = toISOString(clock)
        /\ (last'.op = "uncompleteTask" /\ last'.ret = "task") =>
             \E i \in 1..Len(tasks) :
                 /\ tasks'[i].status = Todo /\ tasks'[i].completed = Bool(FALSE)
                 /\ tasks'[i].completedAt = Null
                 /\ tasks'[i].updatedAt = toISOString(clock)
      ]_vars

\* completeTask has returned the task, one of two stored, a millisecond after it was added
C3_Witness ==
    /\ last.op = "completeTask" /\ last.ret = "task"
    /\ Len(tasks) = 2
    /\ \E i \in 1..Len(tasks) :
           /\ tasks[i].completed = Bool(TRUE)
           /\ tasks[i].updatedAt # tasks[i].createdAt

\* the stored tasks whose id is not id, in their order
Without(id) == SelectSeq(tasks, LAMBDA t : t.id # id)

IsStored(id) == \E i \in 1..Len(tasks) : tasks[i].id = id

\* C6 as claimed: deleteTask(id) on a stored id removes every task with that id,
\* keeps the others in order and returns true; on an id not stored it returns false
\* and leaves the store as it was.
C6_DeleteReturnsTrue ==
    \A id \in Ids, w \in WriteOutcomes :
        LET r == deleteTask(id, w) IN
        IF IsStored(id) THEN r.ret = "true" /\ r.tasks = Without(id)
        ELSE r.ret = "false" /\ r.tasks = tasks

\* C6 amended: deleteTask(id) on a stored id returns true exactly when both store
\* writes succeed, and whenever the tasks write succeeds the store holds the other
\* tasks, unchanged and in order, and none with that id; when the tasks write fails
\* the store is as it was; on an id not stored it returns false and leaves the store
\* as it was.
C6_DeleteWhenSaved ==
    \A id \in Ids, w \in WriteOutcomes :
        LET r == deleteTask(id, w) IN
        IF IsStored(id)
        THEN /\ (r.ret = "true") <=> (w = "ok")
             /\ w # "failTasks" => r.tasks = Without(id)
             /\ w = "failTasks" => r.tasks = tasks
        ELSE r.ret = "false" /\ r.tasks = tasks

\* deleteTask has returned true and one task is left in the store
C6_Witness ==
    /\ last.op = "deleteTask" /\ last.ret = "true"
    /\ Len(tasks) = 1

\* C7: saveTasks returns false, and does not throw, when a store write fails or its
\* argument is not an array; addTask and updateTask then return null.
C7_SaveFailure ==
    /\ \A arg \in {Array(tasks), NotAnArray}, w \in WriteOutcomes :
           LET s == saveTasks(arg, w) IN
           /\ ~s.threw
           /\ (w # "ok" \/ ~arg.isArray) => ~s.ret
    /\ \A taskData \in TaskDataPool, random \in 0..MaxRandom, w \in WriteOutcomes \ {"ok"} :
           addTask(taskData, random, w).ret = "null"
    /\ \A id \in Ids, updates \in UpdatesPool, w \in WriteOutcomes \ {"ok"} :
           updateTask(id, updates, w).ret = "null"
    /\ last.op = "saveTasks" => last.ret \in {"true", "false"}

\* addTask has returned null on a store that holds a task already
C7_Witness ==
    /\ last.op = "addTask" /\ last.ret = "null"
    /\ Len(tasks) >= 1

(***************************************************************************)
(* The validators called on their own: the argument is drawn in the        *)
(* initial state and one call is made                                      *)
(***************************************************************************)
MaxTitleLen == 5
MaxDurationLen == 4

\* every sequence over alphabet of length at most n
StringsUpTo(alphabet, n) == UNION {[1..k -> alphabet] : k \in 0..n}

Repeat(c, n) == [i \in 1..n |-> c]

StoreIdle ==
    /\ tasks = <<>>
    /\ version = "none"
    /\ clock = 0
    /\ last = [op |-> "none", ret |-> "none"]
    /\ calls = 0
    /\ page = BlankPage

TitleAlphabet == {"a", "A", "b", " ", "\t", "-"}

ExampleTitles ==
    { <<>>, <<"a","b">>, <<" ","a","b","c">>, <<"a","b","c"," "," ","d","e","f">>,
      <<"g","o"," ","g","o"," ","n","o","w">>, <<" "," ","a","b"," ">>, <<"a","b","c"," ">>,
      <<"G","o"," ","g","O"," ","n","o","w">>, <<"g","o"," ","n","o","w"," ","g","o">>,
      <<"c","o","-","o","p"," ","o","p">>, <<"a","_","1"," ","a","_","1">>,
      <<"R","e","a","d"," ","c","h","a","p","t","e","r"," ","4">> }
    \cup {Repeat("x", n) : n \in 99..102}
    \cup {<<"a", " ">> \o Repeat("x", n) : n \in 97..99}
    \cup {<<" ">> \o Repeat("x", n) : n \in 99..100}

TitleInputs == StringsUpTo(TitleAlphabet, MaxTitleLen) \cup ExampleTitles

InitTitle ==
    /\ StoreIdle
    /\ vin \in {[fn |-> "validateTitle", arg |-> Str(s)] : s \in TitleInputs}
    /\ vout = NoCall

ValidateTitleCall ==
    /\ vin.fn = "validateTitle"
    /\ vout = NoCall
    /\ vout' = Called(validateTitle(vin.arg))
    /\ UNCHANGED <<tasks, version, clock, last, calls, vin, page>>

SpecTitle == InitTitle /\ [][ValidateTitleCall]_vars


(***************************************************************************)
(* C8: the title rule, stated on the characters of the string              *)
(***************************************************************************)
NoEdgeSpace(s) == s = <<>> \/ (~IsSpace(s[1]) /\ ~IsSpace(s[Len(s)]))

NoSpaceRun(s) == \A i \in 1..(Len(s) - 1) : ~(IsSpace(s[i]) /\ IsSpace(s[i + 1]))

\* s[i..j] is a word: a maximal run of word characters
IsWord(s, i, j) ==
    /\ i <= j
    /\ \A p \in i..j : IsWordChar(s[p])
    /\ i = 1 \/ ~IsWordChar(s[i - 1])
    /\ j = Len(s) \/ ~IsWordChar(s[j + 1])

\* a word, white space only, and then the same word again up to letter case
HasRepeatedWord(s) ==
    \E i \in 1..Len(s) : \E j \in i..Len(s) :
        /\ IsWord(s, i, j)
        /\ \E k \in (j + 2)..Len(s) :
            /\ \A p \in (j + 1)..(k - 1) : IsSpace(s[p])
            /\ \E l \in k..Len(s) :
                /\ IsWord(s, k, l)
                /\ [p \in 1..(j - i + 1) |-> Canon(s[i + p - 1])]
                     = [p \in 1..(l - k + 1) |-> Canon(s[k + p - 1])]

TitleWellFormed(s) ==
    /\ 3 <= Len(s) /\ Len(s) <= 100
    /\ NoEdgeSpace(s)
    /\ NoSpaceRun(s)
    /\ ~HasRepeatedWord(s)

SpecExamplesInvalidTitles ==
    { <<>>, <<"a","b">>, <<" ","a","b","c">>, <<"a","b","c"," "," ","d","e","f">>,
      <<"g","o"," ","g","o"," ","n","o","w">> }

\* C8: validateTitle(s) is valid exactly for the strings of length 3 to 100 with no
\* leading or trailing white space, no run of two or more white space characters and
\* no immediately repeated word (words delimited by word boundaries, compared without
\* regard to case); the five examples the specification lists are invalid.
C8_TitleRule ==
    (vin.fn = "validateTitle" /\ vout.called) =>
        /\ vout.valid <=> TitleWellFormed(vin.arg.s)
        /\ vin.arg.s \in SpecExamplesInvalidTitles => ~vout.valid

\* a title of exactly 100 characters with a space in it has been accepted
C8_Witness ==
    /\ vin.fn = "validateTitle" /\ vout.called /\ vout.valid
    /\ Len(vin.arg.s) = 100
    /\ \E i \in 1..Len(vin.arg.s) : IsSpace(vin.arg.s[i])

(***************************************************************************)
(* validateDuration called on its own                                      *)
(***************************************************************************)
DurationAlphabet == {"0", "1", "4", "-", ".", " ", "a"}

ExampleDurations ==
    { <<"0">>, <<"-","5">>, <<"0","0","7">>, <<"1",".","5">>, <<"a","b","c">>, <<>>,
      <<"1","4","4","1">>, <<"1">>, <<"1","4","4","0">>, <<" ","1","4","4","0"," ">>,
      <<"1","2","0">>, <<"1","4","4","0","0">>, <<"9","9","9","9","9","9">>,
      <<"1","2","m","i","n">>, <<"+","5">>, <<"\t","9","0">> }

DurationInputs ==
    {Str(s) : s \in StringsUpTo(DurationAlphabet, MaxDurationLen) \cup ExampleDurations}
    \cup {Num(n) : n \in {-5, 0, 1, 90, 1440, 1441}}
    \cup {Null, Absent, Bool(TRUE)}

InitDuration ==
    /\ StoreIdle
    /\ vin \in {[fn |-> "validateDuration", arg |-> v] : v \in DurationInputs}
    /\ vout = NoCall

ValidateDurationCall ==
    /\ vin.fn = "validateDuration"
    /\ vout = NoCall
    /\ vout' = Called(validateDuration(vin.arg))
    /\ UNCHANGED <<tasks, version, clock, last, calls, vin, page>>

SpecDuration == InitDuration /\ [][ValidateDurationCall]_vars

\* the number a run of decimal digits writes
RECURSIVE DecimalValue(_)
DecimalValue(u) ==
    IF u = <<>> THEN 0
    ELSE 10 * DecimalValue(SubSeq(u, 1, Len(u) - 1)) + DigitValue(u[Len(u)])

DurationWellFormed(v) ==
    LET u == Trim(StringOf(v)) IN
    /\ u # <<>>
    /\ \A i \in 1..Len(u) : u[i] \in DigitChars
    /\ u[1] # "0"
    /\ 1 <= DecimalValue(u) /\ DecimalValue(u) <= 1440

SpecExamplesInvalidDurations ==
    { <<"0">>, <<"-","5">>, <<"0","0","7">>, <<"1",".","5">>, <<"a","b","c">>, <<>>,
      <<"1","4","4","1">> }

SpecExamplesValidDurations == { <<"1">>, <<"1","4","4","0">> }

\* C9: validateDuration(v) is valid exactly when the trimmed string form of v is a
\* non-empty run of decimal digits whose first digit is not 0 and whose value lies in
\* 1..1440; "0", "-5", "007", "1.5", "abc", "" and "1441" are invalid, "1" and "1440"
\* are valid.
C9_DurationRule ==
    (vin.fn = "validateDuration" /\ vout.called) =>
        /\ vout.valid <=> DurationWellFormed(vin.arg)
        /\ (vin.arg.t = "string" /\ vin.arg.s \in SpecExamplesInvalidDurations)
               => ~vout.valid
        /\ (vin.arg.t = "string" /\ vin.arg.s \in SpecExamplesValidDurations)
               => vout.valid

\* " 1440 ", the largest duration with white space around it, has been accepted
C9_Witness ==
    /\ vin.fn = "validateDuration" /\ vout.called /\ vout.valid
    /\ vin.arg = Str(<<" ","1","4","4","0"," ">>)

(***************************************************************************)
(* validateDueDate called on its own                                       *)
(***************************************************************************)
\* what `new Date()` returns at ms milliseconds into the local day y-m-d
NowAt(y, m, d, ms) == [day |-> MakeDay(y, m - 1, d), ms |-> ms]

Pad(n, width) ==
    LET digits == NatToString(n)
    IN  Repeat("0", width - Len(digits)) \o digits

\* the text YYYY-MM-DD for the numbers y, m, d (whether or not such a day exists)
DateString(y, m, d) == Pad(y, 4) \o <<"-">> \o Pad(m, 2) \o <<"-">> \o Pad(d, 2)

DateYears == {50, 99, 100, 1900, 2000, 2024, 2025, 2026, 2027, 2028, 2029, 2100}

MalformedDates ==
    { <<>>, <<"2","0","2","6","-","1","3","-","0","1">>,
      <<"2","0","2","6","-","0","0","-","1","0">>,
      <<"2","0","2","6","-","1","1","-","3","2">>,
      <<"2","0","2","6","-","1","1","-","0","0">>,
      <<"2","0","2","6","-","1","-","5">>,
      <<"2","0","2","6",".","1","1",".","0","5">>,
      <<"1","1","-","0","5","-","2","0","2","6">> }

DateInputs ==
    {DateString(y, m, d) : y \in DateYears, m \in 1..12, d \in 1..31}
    \cup {<<" ">> \o DateString(2026, 12, d) \o <<" ">> : d \in {24, 31}}
    \cup MalformedDates

\* the two clock readings of one call: the second is never earlier than the first
ClockReadings ==
    { <<NowAt(2026, 11, 4, 1), NowAt(2026, 11, 4, 1)>>,
      <<NowAt(2026, 11, 4, 0), NowAt(2026, 11, 4, 0)>>,
      <<NowAt(2026, 11, 4, 1), NowAt(2026, 11, 5, 0)>>,
      <<NowAt(2024, 2, 29, 1), NowAt(2024, 2, 29, 1)>>,
      <<NowAt(2027, 12, 31, 1), NowAt(2028, 1, 1, 0)>> }

InitDueDate ==
    /\ StoreIdle
    /\ vin \in {[fn |-> "validateDueDate", arg |-> Str(s), now1 |-> r[1], now2 |-> r[2]] :
                    s \in DateInputs, r \in ClockReadings}
    /\ vout = NoCall

ValidateDueDateCall ==
    /\ vin.fn = "validateDueDate"
    /\ vout = NoCall
    /\ vout' = Called(validateDueDate(vin.arg, vin.now1, vin.now2))
    /\ UNCHANGED <<tasks, version, clock, last, calls, vin, page>>

SpecDueDate == InitDueDate /\ [][ValidateDueDateCall]_vars

\* the days of month m (1..12) of year y in the Gregorian calendar
DaysInMonth(y, m) ==
    IF m = 2 THEN (IF InLeapYear(y) THEN 29 ELSE 28)
    ELSE IF m \in {4, 6, 9, 11} THEN 30 ELSE 31

NonExistentReason == "Invalid date (e.g., Feb 30 does not exist)"

\* C10: for every string of the shape YYYY-MM-DD (month 01-12, day 01-31),
\* validateDueDate rejects it as a non-existent date exactly when the day exceeds the
\* number of days of that month in that year, whatever the date window says.
C10_NonExistentExactly ==
    (vin.fn = "validateDueDate" /\ vout.called /\ DATE_REGEX(Trim(vin.arg.s))) =>
        LET u == Trim(vin.arg.s)
            y == DecimalValue(SubSeq(u, 1, 4))
            m == DecimalValue(SubSeq(u, 6, 7))
            d == DecimalValue(SubSeq(u, 9, 10))
        IN  (vout.error = NonExistentReason) <=> (d > DaysInMonth(y, m))

\* the calendar day k years after the day of now (same month and day of month)
YearsFrom(now, k) == MakeDay(getFullYear(now) + k, getMonth(now), getDate(now))

\* the string is YYYY-MM-DD and names a day that exists
IsRealDate(u) ==
    /\ DATE_REGEX(u)
    /\ DecimalValue(SubSeq(u, 9, 10)) <=
           DaysInMonth(DecimalValue(SubSeq(u, 1, 4)), DecimalValue(SubSeq(u, 6, 7)))

\* the day number of the day the string names
DayOf(u) ==
    MakeDay(DecimalValue(SubSeq(u, 1, 4)), DecimalValue(SubSeq(u, 6, 7)) - 1,
            DecimalValue(SubSeq(u, 9, 10)))

\* the text YYYY-MM-DD of day number n
DayString(n) == DateString(YearFromDay(n), MonthFromDay(n) + 1, DateFromDay(n))

\* the days next to the two ends of the window of each clock reading of the call
WindowEdges ==
    UNION {{DayString(YearsFrom(now, -1) - 1), DayString(YearsFrom(now, -1)),
            DayString(YearsFrom(now, 2)), DayString(YearsFrom(now, 2) + 1)} :
                now \in {vin.now1, vin.now2}}

\* validateDueDate, with the clock readings of the call, rejects the real date u
\* exactly when u is outside the window of now
WindowOf(now, u) ==
    IsRealDate(u) =>
        (~validateDueDate(Str(u), vin.now1, vin.now2).valid
            <=> (DayOf(u) < YearsFrom(now, -1) \/ DayOf(u) > YearsFrom(now, 2)))

\* C11: there is one clock reading of the call from which both bounds come:
\* validateDueDate rejects a real calendar date, the one it was called with and
\* the days at the ends of the window alike, exactly when its day is earlier than
\* the day one year before that now or later than the day two years after it.
C11_WindowOfOneNow ==
    (vin.fn = "validateDueDate" /\ vout.called /\ IsRealDate(Trim(vin.arg.s))) =>
        \E now \in {vin.now1, vin.now2} :
            /\ WindowOf(now, Trim(vin.arg.s))
            /\ vout.valid = validateDueDate(vin.arg, vin.now1, vin.now2).valid
            /\ \A u \in WindowEdges : WindowOf(now, u)

(***************************************************************************)
(* validateTag called on its own                                           *)
(***************************************************************************)
MaxTagLen == 5

TagAlphabet == {"a", "Z", " ", "-", "&"}

ExampleTags ==
    { <<"A","I">>, <<"H","e","a","l","t","h"," ","&"," ","F","i","t","n","e","s","s">>,
      <<"H","e","a","l","t","h","-","F","i","t","n","e","s","s">>, <<" ","S","t","u","d","y"," ">>,
      <<"L","a","b"," ","w","o","r","k">> }
    \cup {Repeat("x", n) : n \in 29..31}
    \cup {<<" ">> \o Repeat("x", 30) \o <<" ">>}

TagInputs ==
    {Str(s) : s \in StringsUpTo(TagAlphabet, MaxTagLen) \cup ExampleTags}
    \cup {Absent, Null, Num(123), Bool(TRUE)}

InitTag ==
    /\ StoreIdle
    /\ vin \in {[fn |-> "validateTag", arg |-> v] : v \in TagInputs}
    /\ vout = NoCall

ValidateTagCall ==
    /\ vin.fn = "validateTag"
    /\ vout = NoCall
    /\ vout' = Called(validateTag(vin.arg))
    /\ UNCHANGED <<tasks, version, clock, last, calls, vin, page>>

SpecTag == InitTag /\ [][ValidateTagCall]_vars

\* s is runs of letters joined by one space or one hyphen each: it starts and ends
\* with a letter, holds nothing but letters, spaces and hyphens, and no two
\* separators are next to each other
LetterRuns(s) ==
    /\ Len(s) >= 1
    /\ \A i \in 1..Len(s) : IsLetter(s[i]) \/ s[i] \in {" ", "-"}
    /\ IsLetter(s[1]) /\ IsLetter(s[Len(s)])
    /\ \A i \in 1..(Len(s) - 1) : IsLetter(s[i]) \/ IsLetter(s[i + 1])

\* C12: validateTag(s) is valid exactly when s is a string of 3 to 30 characters that
\* itself consists of letter-runs joined by a single space or a single hyphen, with no
\* leading, trailing or doubled separator; "AI" and "Health & Fitness" are invalid and
\* "Health-Fitness" is valid.
C12_TagRule ==
    (vin.fn = "validateTag" /\ vout.called) =>
        /\ vout.valid <=> /\ vin.arg.t = "string"
                          /\ Len(vin.arg.s) >= 3 /\ Len(vin.arg.s) <= 30
                          /\ LetterRuns(vin.arg.s)
        /\ vin.arg \in {Str(<<"A","I">>), Str(<<"H","e","a","l","t","h"," ","&"," ","F","i","t","n","e","s","s">>)} => ~vout.valid
        /\ vin.arg = Str(<<"H","e","a","l","t","h","-","F","i","t","n","e","s","s">>) => vout.valid

(***************************************************************************)
(* validateTask and App.validateTaskForm called on the same record         *)
(***************************************************************************)
TitleValues == {Str(<<"R","e","a","d">>), Str(<<"a","b">>), Num(7), Absent}
DurationValues == {Str(<<"3","0">>), Str(<<"0">>), Num(45), Null}
DueDateValues == {Str(<<"2","0","2","6","-","1","2","-","0","1">>), Str(<<"2","0","2","4","-","0","2","-","3","0">>), Absent}
TagValues == {Str(<<"S","t","u","d","y">>), Str(<<"A","I">>), Num(7)}
PriorityValues ==
    {Str(<<"H","i","g","h">>), Str(<<"U","r","g","e","n","t">>), Str(<<>>), Absent, Null, Num(0), Num(5), Bool(TRUE)}

\* the records handed to validateTask; a number or a boolean in the place of the
\* record has none of the properties
TaskInputs ==
    {Obj([title |-> t, duration |-> d, dueDate |-> u, tag |-> g, priority |-> p]) :
        t \in TitleValues, d \in DurationValues, u \in DueDateValues,
        g \in TagValues, p \in PriorityValues}
    \cup {Null, Absent}

InitTask ==
    /\ StoreIdle
    /\ vin \in {[fn |-> "validateTask", arg |-> task, now |-> NowAt(2026, 11, 4, 1)] :
                    task \in TaskInputs}
    /\ vout = NoCall

\* validateTask(arg), and validateTaskForm(arg) where arg is a record
ValidateTaskCall ==
    /\ vin.fn = "validateTask"
    /\ vout = NoCall
    /\ LET r == validateTask(vin.arg, vin.now, vin.now)
       IN  vout' = [called |-> TRUE, threw |-> r.threw, valid |-> r.valid,
                    errors |-> r.errors,
                    formErrors |-> IF vin.arg \in {Null, Absent} THEN <<>>
                                   ELSE validateTaskForm(vin.arg, vin.now, vin.now)]
    /\ UNCHANGED <<tasks, version, clock, last, calls, vin, page>>

SpecTask == InitTask /\ [][ValidateTaskCall]_vars

FieldOrder == <<"title", "duration", "dueDate", "tag", "priority">>

Rank(field) == CHOOSE k \in 1..Len(FieldOrder) : FieldOrder[k] = field

\* what the field's own validator answers for the record
FieldResult(task, field, now) ==
    CASE field = "title" -> validateTitle(task.title)
      [] field = "duration" -> validateDuration(task.duration)
      [] field = "dueDate" -> validateDueDate(task.dueDate, now, now)
      [] field = "tag" -> validateTag(task.tag)
      [] field = "priority" -> validatePriority(task.priority)

\* C13: on every record validateTask and validateTaskForm return the same list; it
\* holds an entry for each of title, duration, dueDate and tag whose validator
\* fails, whatever failed before it, with that validator's message; no entry for
\* priority when priority is absent, null or empty, and for a non-empty string one
\* exactly when validatePriority fails; the entries are in the order title,
\* duration, dueDate, tag, priority with at most one per field; and the result is
\* valid exactly when the list is empty.
C13_AllFailuresInOrder ==
    (vin.fn = "validateTask" /\ vout.called /\ vin.arg \notin {Null, Absent}) =>
        LET errors == vout.errors
            Has(field) == \E i \in 1..Len(errors) : errors[i].field = field
        IN  /\ vout.formErrors = errors
            /\ \A i \in 1..Len(errors) :
                   /\ errors[i].field \in {FieldOrder[k] : k \in 1..Len(FieldOrder)}
                   /\ errors[i].message = FieldResult(vin.arg, errors[i].field, vin.now).error
            /\ \A field \in {"title", "duration", "dueDate", "tag"} :
                   Has(field) <=> ~FieldResult(vin.arg, field, vin.now).valid
            /\ vin.arg.priority \in {Absent, Null, Str(<<>>)} => ~Has("priority")
            /\ (vin.arg.priority.t = "string" /\ vin.arg.priority.s # <<>>) =>
                   (Has("priority") <=> ~validatePriority(vin.arg.priority).valid)
            /\ \A i, j \in 1..Len(errors) :
                   i < j => Rank(errors[i].field) < Rank(errors[j].field)
            /\ vout.valid <=> Len(errors) = 0

\* all five fields of a record have failed and both lists hold five entries
C13_Witness ==
    /\ vin.fn = "validateTask" /\ vout.called /\ ~vout.threw
    /\ Len(vout.errors) = 5 /\ Len(vout.formErrors) = 5
    /\ ~vout.valid

\* C14: validateTask does not throw, whatever it is given: it returns a result, and
\* for null or undefined in the place of the record, as for a record whose title,
\* dueDate or tag is absent or not a string, the result is invalid and gives a reason.
C14_NeverThrows ==
    (vin.fn = "validateTask" /\ vout.called) =>
        /\ ~vout.threw
        /\ vin.arg \in {Null, Absent} => (~vout.valid /\ Len(vout.errors) > 0)
        /\ vin.arg \notin {Null, Absent} =>
               \A field \in {"title", "dueDate", "tag"} :
                   vin.arg[field].t # "string" =>
                       \E i \in 1..Len(vout.errors) :
                           vout.errors[i].field = field /\ vout.errors[i].message # ""

(***************************************************************************)
(* SEARCH & FILTER                                                         *)
(* The patterns are sequences of literal characters and of ".", or they    *)
(* are malformed: an unclosed "[" or "(", for which new RegExp throws.     *)
(***************************************************************************)
Unclosed(pattern, open, close) ==
    \E i \in 1..Len(pattern) :
        pattern[i] = open /\ \A j \in (i + 1)..Len(pattern) : pattern[j] # close

\* new RegExp(pattern, flags): a SyntaxError, or the regex
RegExp(pattern, flags) ==
    IF Unclosed(pattern, "[", "]") \/ Unclosed(pattern, "(", ")")
    THEN [threw |-> TRUE]
    ELSE [threw |-> FALSE, source |-> pattern, flags |-> flags]

\* compileRegex: null for a pattern that is empty or no string, and for one that
\* new RegExp rejects
compileRegex(pattern, flags) ==
    IF ~Truthy(pattern) \/ pattern.t # "string" THEN Null
    ELSE LET regex == RegExp(pattern.s, flags)
         IN  IF regex.threw THEN Null ELSE regex

\* the regex matches s at position i
MatchesAt(regex, s, i) ==
    /\ i + Len(regex.source) - 1 <= Len(s)
    /\ \A k \in 1..Len(regex.source) :
           LET c == regex.source[k]
               x == s[i + k - 1]
           IN  \/ c = "."
               \/ c = x
               \/ regex.flags = "i" /\ Canon(c) = Canon(x)

\* the position of the first match of the regex in s, 0 when there is none
FirstMatch(regex, s) ==
    IF \E i \in 1..Len(s) : MatchesAt(regex, s, i)
    THEN CHOOSE i \in 1..Len(s) :
            MatchesAt(regex, s, i) /\ \A j \in 1..(i - 1) : ~MatchesAt(regex, s, j)
    ELSE 0

\* regex.test(v): v is converted to a string first
RegexTest(regex, v) == FirstMatch(regex, StringOf(v)) # 0

\* s with every character of the set chars replaced by its entity
RECURSIVE EscapeChars(_, _)
EscapeChars(s, chars) ==
    IF s = <<>> THEN <<>>
    ELSE (IF Head(s) \notin chars THEN <<Head(s)>>
          ELSE CASE Head(s) = "&" -> <<"&","a","m","p",";">>
                 [] Head(s) = "<" -> <<"&","l","t",";">>
                 [] Head(s) = ">" -> <<"&","g","t",";">>
                 [] Head(s) = "\"" -> <<"&","q","u","o","t",";">>
                 [] Head(s) = "'" -> <<"&","#","3","9",";">>)
         \o EscapeChars(Tail(s), chars)

\* escapeHtml: what innerHTML gives back for a textContent
escapeHtml(text) == EscapeChars(text.s, {"&", "<", ">"})

MarkOpen == <<"<","m","a","r","k",">">>
MarkClose == <<"<","/","m","a","r","k",">">>

\* highlightMatches with a regex that has no g flag: replace() replaces the first
\* match in the escaped text
highlightMatches(text, regex) ==
    IF regex = Null \/ ~Truthy(text) THEN StringOf(text)
    ELSE LET escaped == EscapeChars(StringOf(text), {"&", "<", ">", "\"", "'"})
             i == FirstMatch(regex, escaped)
             n == Len(regex.source)
         IN  IF i = 0 THEN escaped
             ELSE SubSeq(escaped, 1, i - 1) \o MarkOpen \o SubSeq(escaped, i, i + n - 1)
                  \o MarkClose \o SubSeq(escaped, i + n, Len(escaped))

\* new Date(dueDate) for a YYYY-MM-DD string, in days
DueDay(task) ==
    LET u == task.dueDate.s
    IN  MakeDay(ToNumber(SubSeq(u, 1, 4)), ToNumber(SubSeq(u, 6, 7)) - 1,
                ToNumber(SubSeq(u, 9, 10)))

\* [...data].sort((a, b) => new Date(a.dueDate) - new Date(b.dueDate)): the sort is
\* stable, a task goes after the tasks due on the same day that precede it in data
RECURSIVE InsertByDue(_, _)
InsertByDue(task, sorted) ==
    IF sorted = <<>> THEN <<task>>
    ELSE IF DueDay(task) < DueDay(Head(sorted)) THEN <<task>> \o sorted
    ELSE <<Head(sorted)>> \o InsertByDue(task, Tail(sorted))

RECURSIVE SortByDue(_)
SortByDue(data) ==
    IF data = <<>> THEN <<>>
    ELSE InsertByDue(data[Len(data)], SortByDue(SubSeq(data, 1, Len(data) - 1)))

\* tasks.filter((t) => !t.completed)
ActiveTasks == SelectSeq(tasks, LAMBDA t : ~Truthy(t.completed))

\* renderTaskCard / renderTaskRow: the id and the title cell of the row
RenderRow(task, searchRegex) ==
    [id |-> task.id,
     title |-> IF searchRegex # Null THEN highlightMatches(task.title, searchRegex)
               ELSE escapeHtml(task.title)]

\* renderTasks(tasks, searchRegex): the rows it leaves on the page; called with no
\* argument (data = Null) it renders the stored tasks that are not completed
renderTasks(data, searchRegex) ==
    LET list == IF data = Null THEN ActiveTasks ELSE data.items
        sorted == SortByDue(list)
    IN  [i \in 1..Len(sorted) |-> RenderRow(sorted[i], searchRegex)]

\* t.status || "" and t.location || ""
OrEmpty(v) == IF Truthy(v) THEN v ELSE Str(<<>>)

\* filterTasksByRegex(regex): the rows and the regex of the render it ends with
filterTasksByRegex(regex) ==
    LET filtered == SelectSeq(ActiveTasks, LAMBDA t :
                        \/ RegexTest(regex, t.title)
                        \/ RegexTest(regex, t.tag)
                        \/ RegexTest(regex, t.dueDate)
                        \/ RegexTest(regex, OrEmpty(t.status))
                        \/ RegexTest(regex, OrEmpty(t.location)))
    IN  IF regex = Null THEN [rows |-> renderTasks(Array(ActiveTasks), Null), searchRegex |-> Null]
        ELSE [rows |-> renderTasks(Array(filtered), regex), searchRegex |-> regex]

InvalidRegexMessage == "Invalid regex"

\* the search box's handler without its try/catch: the SyntaxError escapes
searchInput_mut(value, caseSensitive) ==
    LET pattern == Trim(value)
        regex == RegExp(pattern, IF caseSensitive THEN "" ELSE "i")
    IN  IF pattern = <<>>
        THEN [threw |-> FALSE,
              page |-> [rows |-> renderTasks(Null, Null), searchRegex |-> Null,
                        searchError |-> ""]]
        ELSE IF regex.threw THEN [threw |-> TRUE, page |-> page]
        ELSE LET f == filterTasksByRegex(regex)
             IN  [threw |-> FALSE,
                  page |-> [rows |-> f.rows, searchRegex |-> f.searchRegex,
                            searchError |-> ""]]

\* the search box's handler, as the timer runs it on the text in the box: what
\* it leaves on the page, and whether an exception leaves it
searchInput(value, caseSensitive) ==
    LET pattern == Trim(value)
        regex == RegExp(pattern, IF caseSensitive THEN "" ELSE "i")
    IN  IF pattern = <<>>
        THEN [threw |-> FALSE,
              page |-> [rows |-> renderTasks(Null, Null), searchRegex |-> Null,
                        searchError |-> ""]]
        ELSE IF regex.threw
        THEN [threw |-> FALSE, page |-> [page EXCEPT !.searchError = InvalidRegexMessage]]
        ELSE LET f == filterTasksByRegex(regex)
             IN  [threw |-> FALSE,
                  page |-> [rows |-> f.rows, searchRegex |-> f.searchRegex,
                            searchError |-> ""]]

(***************************************************************************)
(* The tasks page: the store is loaded, the list rendered, and the user    *)
(* types into the search box or flips the case-sensitive box               *)
(***************************************************************************)
\* stored as the form and addTask leave it
TaskQA ==
    Obj([id |-> Str(<<"t","1">>), title |-> Str(<<"Q","&","A">>), tag |-> Str(<<"C","a","m","p">>),
         dueDate |-> Str(<<"2","0","2","6","-","1","2","-","0","1">>), duration |-> Str(<<"3","0">>),
         status |-> Todo, completed |-> Bool(FALSE)])

\* imported from a file that has the five required fields only
TaskImported ==
    Obj([id |-> Str(<<"t","2">>), title |-> Str(<<"a","X","a">>), tag |-> Str(<<"L","a","b">>),
         dueDate |-> Str(<<"2","0","2","6","-","1","1","-","2","0">>), duration |-> Str(<<"4","5">>)])

TaskDone ==
    Obj([id |-> Str(<<"t","3">>), title |-> Str(<<"D","a","t","a">>), tag |-> Str(<<"L","a","b">>),
         dueDate |-> Str(<<"2","0","2","6","-","1","1","-","1","0">>), duration |-> Str(<<"6","0">>),
         status |-> Completed, completed |-> Bool(TRUE),
         location |-> Str(<<"H","a","l","l">>)])

TaskRoom ==
    Obj([id |-> Str(<<"t","4">>), title |-> Str(<<"E","x","a","m">>), tag |-> Str(<<"C","a","m","p">>),
         dueDate |-> Str(<<"2","0","2","6","-","1","1","-","2","0">>), duration |-> Str(<<"9","0">>),
         status |-> Todo, completed |-> Bool(FALSE),
         location |-> Str(<<"R","o","o","m"," ","1">>)])

SearchStores ==
    { <<>>, <<TaskQA, TaskImported, TaskDone>>, <<TaskDone>>,
      <<TaskRoom, TaskQA, TaskImported>> }

\* what the user types into the search box
SearchTexts ==
    { <<>>, <<" ">>, <<"T","o","d","o">>, <<"a">>, <<"a","m","p">>, <<"z","z">>, <<"&">>, <<"X",".">>, <<"H","a","l","l">>, <<" ","r","o","o","m"," ">>, <<"[">>, <<"(","a">>, <<"[","a">> }

InitSearch ==
    /\ tasks \in SearchStores
    /\ version = "1.0.0"
    /\ clock = 0
    /\ last = [op |-> "none", ret |-> "none"]
    /\ calls = 0
    /\ vin = [fn |-> "search", value |-> <<>>, caseSensitive |-> FALSE]
    /\ vout = NoCall
    /\ page = [rows |-> renderTasks(Null, Null), searchRegex |-> Null, searchError |-> ""]

\* the handler has run on the text and the checkbox of vin'
RunSearch(value, caseSensitive) ==
    LET r == searchInput(value, caseSensitive)
    IN  /\ vin' = [fn |-> "search", value |-> value, caseSensitive |-> caseSensitive]
        /\ vout' = [called |-> TRUE, threw |-> r.threw]
        /\ page' = r.page
        /\ UNCHANGED <<tasks, version, clock, last, calls>>

\* the user has typed and the 300 ms timer has run the handler
SearchInput ==
    /\ vin.fn = "search"
    /\ \E value \in SearchTexts : RunSearch(value, vin.caseSensitive)

\* the case-sensitive box is flipped, which dispatches an input event
CaseSensitiveChange ==
    /\ vin.fn = "search"
    /\ RunSearch(vin.value, ~vin.caseSensitive)

NextSearch == SearchInput \/ CaseSensitiveChange

SpecSearch == InitSearch /\ [][NextSearch]_vars

\* the text in the box is a pattern that compiles, and the rows are its result
SearchDone ==
    /\ vin.fn = "search" /\ vout.called
    /\ Trim(vin.value) # <<>>
    /\ ~RegExp(Trim(vin.value), "").threw

\* the regex matches somewhere in the string s
MatchesIn(regex, s) == \E i \in 1..Len(s) : MatchesAt(regex, s, i)

\* v when the task has it, otherwise the default
OrDefault(v, default) == IF v \in {Absent, Null, Str(<<>>)} THEN default ELSE v.s

\* C15: after a search with a pattern that compiles, the rows shown are exactly the
\* stored tasks that are not completed and for which the pattern matches one of
\* title, tag, dueDate, status ("Todo" when the task has none) or location (empty
\* when absent); no completed task is shown.
C15_FilterMatchesAnyField ==
    SearchDone =>
        LET regex == RegExp(Trim(vin.value), IF vin.caseSensitive THEN "" ELSE "i")
            Hit(t) == \/ MatchesIn(regex, t.title.s)
                      \/ MatchesIn(regex, t.tag.s)
                      \/ MatchesIn(regex, t.dueDate.s)
                      \/ MatchesIn(regex, OrDefault(t.status, <<"T","o","d","o">>))
                      \/ MatchesIn(regex, OrDefault(t.location, <<>>))
        IN  /\ {page.rows[k].id : k \in 1..Len(page.rows)}
                = {tasks[i].id : i \in {j \in 1..Len(tasks) :
                                           tasks[j].completed # Bool(TRUE) /\ Hit(tasks[j])}}
            /\ \A i \in 1..Len(tasks) : \A k \in 1..Len(page.rows) :
                   tasks[i].completed = Bool(TRUE) => page.rows[k].id # tasks[i].id

\* C16: when the text in the search box is a pattern that does not compile
\* (compileRegex gives null for it), the
\* handler shows the error message, lets no exception out, leaves the rows of the
\* page and the store as they were; and after every run of the handler the message
\* is shown exactly when the text, trimmed, is non-empty and did not compile.
C16_CompileFailure ==
    [][ LET pattern == Trim(vin'.value)
            failed == pattern # <<>> /\ RegExp(pattern, "").threw
        IN  vin'.fn = "search" =>
                /\ ~vout'.threw
                /\ tasks' = tasks /\ version' = version
                /\ (page'.searchError # "") <=> failed
                /\ failed => /\ compileRegex(Str(pattern), "i") = Null
                             /\ page'.searchError = InvalidRegexMessage
                             /\ page'.rows = page.rows
                             /\ page'.searchRegex = page.searchRegex
      ]_vars

\* the pattern in the box did not compile and the rows of the search made before
\* it, which left out a task that is not completed, are still there
C16_Witness ==
    /\ vin.fn = "search" /\ vout.called
    /\ RegExp(Trim(vin.value), "").threw
    /\ page.searchError = InvalidRegexMessage
    /\ page.searchRegex # Null
    /\ Len(page.rows) = 1 /\ Len(ActiveTasks) = 3

\* the stored task a row was rendered from
TaskOfRow(row) == tasks[CHOOSE i \in 1..Len(tasks) : tasks[i].id = row.id]

EscapeAll(s) == EscapeChars(s, {"&", "<", ">", "\"", "'"})

\* the ways to write text from position i on, escaped, with spans around some matches
\* of the regex in text that do not overlap
RECURSIVE SpansOfMatches(_, _, _)
SpansOfMatches(text, regex, i) ==
    IF i > Len(text) THEN {<<>>}
    ELSE {EscapeAll(<<text[i]>>) \o r : r \in SpansOfMatches(text, regex, i + 1)}
         \cup (IF MatchesAt(regex, text, i)
               THEN LET n == Len(regex.source)
                    IN  {MarkOpen \o EscapeAll(SubSeq(text, i, i + n - 1)) \o MarkClose \o r :
                            r \in SpansOfMatches(text, regex, i + n)}
               ELSE {})

\* C17: in the rows of a search, the title cell is the escaped title with spans
\* around matches of the pattern in the title as stored: nothing that the escaping
\* wrote (the "amp" of "&amp;") is inside a span or split by one.
C17_SpansAreMatchesOfOriginal ==
    SearchDone =>
        \A k \in 1..Len(page.rows) :
            page.rows[k].title
                \in SpansOfMatches(TaskOfRow(page.rows[k]).title.s, page.searchRegex, 1)

\* text from position i on with a span around every match, leftmost first, none
\* overlapping
RECURSIVE SpanEveryMatch(_, _, _)
SpanEveryMatch(text, regex, i) ==
    IF i > Len(text) THEN <<>>
    ELSE IF MatchesAt(regex, text, i)
         THEN LET n == Len(regex.source)
              IN  MarkOpen \o EscapeAll(SubSeq(text, i, i + n - 1)) \o MarkClose
                  \o SpanEveryMatch(text, regex, i + n)
         ELSE EscapeAll(<<text[i]>>) \o SpanEveryMatch(text, regex, i + 1)

\* C18: in the rows of a search (flags "" or "i"), the title cell of a title that
\* needs no escaping has every non-overlapping match of the pattern in its own span,
\* and the text outside the matches as it is.
C18_EveryMatchWrapped ==
    SearchDone =>
        \A k \in 1..Len(page.rows) :
            LET title == TaskOfRow(page.rows[k]).title.s
            IN  EscapeAll(title) = title =>
                    page.rows[k].title = SpanEveryMatch(title, page.searchRegex, 1)

(***************************************************************************)
(* Grouping and counting by tag.  `grouped` and `counts` are object        *)
(* literals: a key they do not own is looked up in Object.prototype.       *)
(***************************************************************************)
\* the properties every object literal inherits that are spelled as a valid tag
PrototypeKeys ==
    { <<"c","o","n","s","t","r","u","c","t","o","r">>, <<"t","o","S","t","r","i","n","g">>, <<"v","a","l","u","e","O","f">>, <<"h","a","s","O","w","n","P","r","o","p","e","r","t","y">>, <<"i","s","P","r","o","t","o","t","y","p","e","O","f">>,
      <<"t","o","L","o","c","a","l","e","S","t","r","i","n","g">>, <<"p","r","o","p","e","r","t","y","I","s","E","n","u","m","e","r","a","b","l","e">> }

\* the function a prototype key names: Object for "constructor", else the method
PrototypeFunction(key) ==
    [t |-> "function", name |-> IF key = <<"c","o","n","s","t","r","u","c","t","o","r">> THEN <<"O","b","j","e","c","t">> ELSE key]

\* obj[key], obj given by the properties it owns
Get(own, key) ==
    IF key \in DOMAIN own THEN own[key]
    ELSE IF key \in PrototypeKeys THEN PrototypeFunction(key)
    ELSE Absent

\* obj[key] = value
Put(own, key, value) ==
    [k \in DOMAIN own \cup {key} |-> IF k = key THEN value ELSE own[k]]

EmptyObject == [k \in {} |-> Absent]

\* a value in a condition: a function is truthy, so is a non-empty array
IsTruthy(v) == IF v.t \in {"function", "array"} THEN TRUE ELSE Truthy(v)

\* getTasksByTagGrouped's forEach from task i on: the object so far, or the
\* TypeError of calling push on something that has none
RECURSIVE GroupFrom(_, _)
GroupFrom(grouped, i) ==
    IF i > Len(tasks) THEN [threw |-> FALSE, grouped |-> grouped]
    ELSE LET key == StringOf(tasks[i].tag)
             g1 == IF ~IsTruthy(Get(grouped, key))
                   THEN Put(grouped, key, [t |-> "array", items |-> <<>>])
                   ELSE grouped
             target == Get(g1, key)
         IN  IF target.t # "array" THEN [threw |-> TRUE, grouped |-> g1]
             ELSE GroupFrom(Put(g1, key, [t |-> "array",
                                          items |-> Append(target.items, tasks[i])]),
                            i + 1)

\* getTasksByTagGrouped: `return {}` in catch
getTasksByTagGrouped ==
    LET r == GroupFrom(EmptyObject, 1)
    IN  IF r.threw THEN EmptyObject ELSE r.grouped

\* String(v) for what a counts property can hold
CountText(v) ==
    IF v.t = "function"
    THEN <<"f","u","n","c","t","i","o","n"," ">> \o v.name \o <<"(",")"," ","{"," ","[","n","a","t","i","v","e"," ","c","o","d","e","]"," ","}">>
    ELSE StringOf(v)

\* (counts[t.tag] || 0) + 1: a sum of numbers, or the concatenation of strings when
\* the left operand is not a number
PlusOne(v) ==
    LET left == IF IsTruthy(v) THEN v ELSE Num(0)
    IN  IF left.t = "number" THEN Num(left.n + 1)
        ELSE Str(CountText(left) \o <<"1">>)

RECURSIVE CountFrom(_, _)
CountFrom(counts, i) ==
    IF i > Len(tasks) THEN counts
    ELSE LET key == StringOf(tasks[i].tag)
         IN  CountFrom(Put(counts, key, PlusOne(Get(counts, key))), i + 1)

getTaskCountsByTag == CountFrom(EmptyObject, 1)

MaxStored == 3

StoredTags == { <<"L","a","b">>, <<"C","a","m","p">>, <<"c","o","n","s","t","r","u","c","t","o","r">>, <<"t","o","S","t","r","i","n","g">> }

\* the stores: up to MaxStored valid tasks with distinct ids and these tags
TagStores ==
    UNION {[1..n -> StoredTags] : n \in 0..MaxStored}

InitTags ==
    /\ \E tags \in TagStores :
           tasks = [i \in 1..Len(tags) |->
                       [Obj(GoodTask) EXCEPT !.id = Str(<<"t">> \o NatToString(i)),
                                             !.tag = Str(tags[i]),
                                             !.status = Todo,
                                             !.completed = Bool(FALSE)]]
    /\ version = "1.0.0"
    /\ clock = 0
    /\ last = [op |-> "none", ret |-> "none"]
    /\ calls = 0
    /\ vin = [fn |-> "tags"]
    /\ vout = NoCall
    /\ page = BlankPage

GetTasksByTagGrouped ==
    /\ vin.fn = "tags"
    /\ vout = NoCall
    /\ vout' = [called |-> TRUE, fn |-> "getTasksByTagGrouped",
                result |-> getTasksByTagGrouped]
    /\ UNCHANGED <<tasks, version, clock, last, calls, vin, page>>

GetTaskCountsByTag ==
    /\ vin.fn = "tags"
    /\ vout = NoCall
    /\ vout' = [called |-> TRUE, fn |-> "getTaskCountsByTag",
                result |-> getTaskCountsByTag]
    /\ UNCHANGED <<tasks, version, clock, last, calls, vin, page>>

NextTags == GetTasksByTagGrouped \/ GetTaskCountsByTag

SpecTags == InitTags /\ [][NextTags]_vars

\* every stored task has a tag that validateTag accepts
TagsValid == \A i \in 1..Len(tasks) : validateTag(tasks[i].tag).valid

TagsStored == {tasks[i].tag.s : i \in 1..Len(tasks)}

\* the stored tasks carrying the tag, in the order of the store
Carrying(tag) == SelectSeq(tasks, LAMBDA t : t.tag.s = tag)

\* C19: for a store whose tags are all valid, getTasksByTagGrouped returns a mapping
\* whose keys are the tags of the store and whose group for a tag is the sequence of
\* the stored tasks carrying it, in store order; so the groups together hold every
\* stored task exactly once.
C19_GroupsPartitionStore ==
    (vout.called /\ vout.fn = "getTasksByTagGrouped" /\ TagsValid) =>
        /\ DOMAIN vout.result = TagsStored
        /\ \A tag \in TagsStored :
               /\ vout.result[tag].t = "array"
               /\ vout.result[tag].items = Carrying(tag)

\* C20: for a store whose tags are all valid, getTaskCountsByTag returns a mapping
\* whose keys are the tags of the store, each mapped to the number of stored tasks
\* carrying it; the numbers sum to the number of stored tasks.
C20_CountsPerTag ==
    (vout.called /\ vout.fn = "getTaskCountsByTag" /\ TagsValid) =>
        /\ DOMAIN vout.result = TagsStored
        /\ \A tag \in TagsStored : vout.result[tag] = Num(Len(Carrying(tag)))

(***************************************************************************)
(* QUERIES & STATISTICS that read the clock.  An instant is a number of    *)
(* hours since 1970-01-01T00:00Z; a clock reading is the local calendar    *)
(* day and hour; the zone is the hours local time is ahead of UTC.         *)
(***************************************************************************)
\* new Date(): the instant of the reading
InstantOf(now, zone) == now.day * 24 + now.hour - zone

\* today.setHours(0, 0, 0, 0): local midnight of the day of the reading
LocalMidnight(day, zone) == day * 24 - zone

\* new Date("YYYY-MM-DD"): a date-only string is read as midnight UTC
DueInstant(task) == DueDay(task) * 24

\* getTasksDueInDays(days)
getTasksDueInDays(days, now, zone) ==
    LET today == LocalMidnight(now.day, zone)
        futureDate == LocalMidnight(now.day + days, zone)
    IN  SelectSeq(tasks, LAMBDA t :
            /\ DueInstant(t) >= today
            /\ DueInstant(t) <= futureDate
            /\ ~Truthy(t.completed))

\* getCompletedTasks: tasks.filter((t) => t.completed === true)
getCompletedTasks == SelectSeq(tasks, LAMBDA t : t.completed = Bool(TRUE))

\* calculateTotalDuration(data): data.reduce((sum, t) => sum + parseInt(t.duration), 0);
\* NaN once a duration does not start with digits
RECURSIVE calculateTotalDuration(_)
calculateTotalDuration(data) ==
    IF data = <<>> THEN [nan |-> FALSE, n |-> 0]
    ELSE LET rest == calculateTotalDuration(SubSeq(data, 1, Len(data) - 1))
             d == parseInt(StringOf(data[Len(data)].duration))
         IN  IF rest.nan \/ d.nan THEN [nan |-> TRUE, n |-> 0]
             ELSE [nan |-> FALSE, n |-> rest.n + d.n]

\* updateMetrics: the numbers it writes into the dashboard's metric cards
updateMetrics(now, zone) ==
    [totalTasks |-> Len(ActiveTasks),
     weekTasks |-> Len(getTasksDueInDays(7, now, zone)),
     totalDuration |-> calculateTotalDuration(ActiveTasks),
     completedCount |-> Len(getCompletedTasks)]

\* initHomePage: the numbers it writes into the home page's stats
initHomePage(now, zone) ==
    LET today == InstantOf(now, zone)
        weekLater == today + 7 * 24
    IN  [totalTasks |-> Len(ActiveTasks),
         dueWeek |-> Len(SelectSeq(tasks, LAMBDA t :
                            /\ DueInstant(t) >= today
                            /\ DueInstant(t) <= weekLater
                            /\ ~Truthy(t.completed)))]

\* the local day of the clock readings: 2026-11-04
Today == MakeDay(2026, 10, 4)

\* a stored task due offset days after Today
DueTask(offset, completed) ==
    [Obj(GoodTask) EXCEPT
        !.id = Str(<<"d">> \o NatToString(offset + 1) \o (IF completed THEN <<"c">> ELSE <<>>)),
        !.dueDate = Str(DayString(Today + offset)),
        !.status = IF completed THEN Completed ELSE Todo,
        !.completed = Bool(completed)]

DueTasks ==
    << DueTask(-1, FALSE), DueTask(0, FALSE), DueTask(1, FALSE), DueTask(2, TRUE),
       DueTask(7, FALSE), DueTask(8, FALSE) >>

\* the stores: the tasks of DueTasks at the positions of keep, in that order
DueStore(keep) == SelectSeq(DueTasks, LAMBDA t : \E i \in keep : DueTasks[i] = t)

Zones == {-5, 0, 2}

InitDue ==
    /\ \E keep \in SUBSET (1..Len(DueTasks)) : tasks = DueStore(keep)
    /\ version = "1.0.0"
    /\ clock = 0
    /\ last = [op |-> "none", ret |-> "none"]
    /\ calls = 0
    /\ vin \in {[fn |-> "due", days |-> days, zone |-> zone,
                 now |-> [day |-> Today, hour |-> hour]] :
                    days \in {1, 7}, zone \in Zones, hour \in {0, 10, 23}}
    /\ vout = NoCall
    /\ page = BlankPage

GetTasksDueInDays ==
    /\ vin.fn = "due"
    /\ vout = NoCall
    /\ vout' = [called |-> TRUE, fn |-> "getTasksDueInDays",
                result |-> getTasksDueInDays(vin.days, vin.now, vin.zone)]
    /\ UNCHANGED <<tasks, version, clock, last, calls, vin, page>>

UpdateMetrics ==
    /\ vin.fn = "due"
    /\ vout = NoCall
    /\ vout' = [called |-> TRUE, fn |-> "updateMetrics",
                result |-> updateMetrics(vin.now, vin.zone)]
    /\ UNCHANGED <<tasks, version, clock, last, calls, vin, page>>

InitHomePage ==
    /\ vin.fn = "due"
    /\ vout = NoCall
    /\ vout' = [called |-> TRUE, fn |-> "initHomePage",
                result |-> initHomePage(vin.now, vin.zone)]
    /\ UNCHANGED <<tasks, version, clock, last, calls, vin, page>>

NextDue == GetTasksDueInDays \/ UpdateMetrics \/ InitHomePage

SpecDue == InitDue /\ [][NextDue]_vars

\* C21: getTasksDueInDays(N) returns exactly the stored tasks that are not completed
\* and whose dueDate is a day from today to today + N, both included, today being
\* the local calendar day, in every time zone.
C21_DueWithinDays ==
    (vout.called /\ vout.fn = "getTasksDueInDays") =>
        vout.result = SelectSeq(tasks, LAMBDA t :
                          /\ t.completed # Bool(TRUE)
                          /\ DayOf(t.dueDate.s) >= vin.now.day
                          /\ DayOf(t.dueDate.s) <= vin.now.day + vin.days)

\* C28: for one store and one instant, the home page's "due this week" number is
\* the dashboard's, the length of getTasksDueInDays(7).
C28_HomeEqualsDashboard ==
    (vout.called /\ vout.fn = "initHomePage") =>
        /\ vout.result.dueWeek = Len(getTasksDueInDays(7, vin.now, vin.zone))
        /\ vout.result.dueWeek = updateMetrics(vin.now, vin.zone).weekTasks

(***************************************************************************)
(* Sort tasks                                                              *)
(***************************************************************************)
\* the characters of the titles in the order of their code units
CodeOrder == <<" ", "-">> \o Digits \o LowerCase

CodeOf(c) == CHOOSE k \in 1..Len(CodeOrder) : CodeOrder[k] = c

\* a.title.toLowerCase()
toLowerCase(s) == [i \in 1..Len(s) |-> Canon(s[i])]

\* s < t for two strings (code unit by code unit, a prefix first)
StringLess(s, t) ==
    \E k \in 1..Len(t) :
        /\ k <= Len(s) + 1
        /\ \A i \in 1..(k - 1) : s[i] = t[i]
        /\ k = Len(s) + 1 \/ CodeOf(s[k]) < CodeOf(t[k])

\* aVal < bVal for the aVal and bVal sortTasks takes from the tasks a and b
KeyLess(a, b, field) ==
    CASE field = "dueDate" -> DueInstant(a) < DueInstant(b)
      [] field = "title" -> StringLess(toLowerCase(a.title.s), toLowerCase(b.title.s))
      [] field = "duration" ->
            LET x == parseInt(StringOf(a.duration))
                y == parseInt(StringOf(b.duration))
            IN  ~x.nan /\ ~y.nan /\ x.n < y.n

\* the comparator of sortTasks on (a, b): 1 or -1, never 0
Comparator(a, b, field, order) ==
    IF order = "asc" THEN (IF KeyLess(b, a, field) THEN 1 ELSE -1)
    ELSE (IF KeyLess(a, b, field) THEN 1 ELSE -1)

\* the sequences over the elements of list, each taken once
Arrangements(list) ==
    {[i \in 1..Len(list) |-> list[f[i]]] :
        f \in {g \in [1..Len(list) -> 1..Len(list)] :
                  \A i, j \in 1..Len(list) : g[i] = g[j] => i = j}}

\* [...list].sort(comparator): for two tasks with equal keys the comparator says -1
\* whichever comes first, so it is no consistent comparison and the order the sort
\* leaves them in is implementation-defined; tasks with different keys are in order
SortOutcomes(list, field, order) ==
    {p \in Arrangements(list) :
        \A i, j \in 1..Len(p) :
            i < j => ~(Comparator(p[i], p[j], field, order) = 1
                       /\ Comparator(p[j], p[i], field, order) = -1)}

\* updateSortButtonStates: the button left active and its arrow
updateSortButtonStates(field, order) == [field |-> field, order |-> order]

IdsOf(list) == [i \in 1..Len(list) |-> list[i].id]

SortTask(id, title, dueDate, duration, completed) ==
    [Obj(GoodTask) EXCEPT !.id = Str(id), !.title = Str(title), !.dueDate = Str(dueDate),
                          !.duration = Str(duration),
                          !.status = IF completed THEN Completed ELSE Todo,
                          !.completed = Bool(completed)]

SortPool ==
    { SortTask(<<"s","1">>, <<"b","e","t","a">>, <<"2","0","2","6","-","1","1","-","2","0">>, <<"3","0">>, FALSE),
      SortTask(<<"s","2">>, <<"A","l","p","h","a">>, <<"2","0","2","6","-","1","1","-","1","0">>, <<"1","0","0">>, FALSE),
      SortTask(<<"s","3">>, <<"a","l","p","h","a">>, <<"2","0","2","6","-","1","1","-","2","0">>, <<"3","0">>, FALSE),
      SortTask(<<"s","4">>, <<"Z","e","d">>, <<"2","0","2","6","-","1","1","-","0","1">>, <<"5">>, TRUE) }

MaxSorted == 3

\* the stores: up to MaxSorted of the tasks of SortPool, in any order
SortStores ==
    UNION {{q \in [1..n -> SortPool] : \A i, j \in 1..n : q[i] = q[j] => i = j} :
              n \in 0..MaxSorted}

InitSort ==
    /\ tasks \in SortStores
    /\ version = "1.0.0"
    /\ clock = 0
    /\ last = [op |-> "none", ret |-> "none"]
    /\ calls = 0
    /\ vin \in {[fn |-> "sortTasks", field |-> field, order |-> order] :
                    field \in {"dueDate", "title", "duration"}, order \in {"asc", "desc"}}
    /\ vout = NoCall
    /\ page = [rows |-> renderTasks(Null, Null), searchRegex |-> Null, searchError |-> ""]

\* sortTasks(field, order): the sorted copy is handed to renderTasks, which sorts
\* what it is given by due date before it writes the rows
SortTasks ==
    /\ vin.fn = "sortTasks"
    /\ vout = NoCall
    /\ \E sorted \in SortOutcomes(ActiveTasks, vin.field, vin.order) :
           /\ page' = [page EXCEPT !.rows = renderTasks(Array(sorted), Null),
                                   !.searchRegex = Null]
           /\ vout' = [called |-> TRUE, fn |-> "sortTasks", times |-> 1,
                       sorted |-> sorted, before |-> ActiveTasks,
                       button |-> updateSortButtonStates(vin.field, vin.order)]
    /\ UNCHANGED <<tasks, version, clock, last, calls, vin>>

\* the same sort applied to the sequence the first one returned
SortAgain ==
    /\ vin.fn = "sortTasks"
    /\ vout.called /\ vout.times = 1
    /\ \E sorted \in SortOutcomes(vout.sorted, vin.field, vin.order) :
           vout' = [vout EXCEPT !.times = 2, !.sorted = sorted, !.before = vout.sorted]
    /\ UNCHANGED <<tasks, version, clock, last, calls, vin, page>>

NextSort == SortTasks \/ SortAgain

SpecSort == InitSort /\ [][NextSort]_vars

\* the key of a does not come after the key of b in the order asked for
InOrder(a, b, field, order) ==
    IF order = "asc" THEN ~KeyLess(b, a, field) ELSE ~KeyLess(a, b, field)

\* C22: after sortTasks(field, order) the rows of the page are the stored tasks that
\* are not completed, each once, in the order of the selected key (non-decreasing
\* for "asc", non-increasing for "desc"), and the store is as it was.
C22_RowsOrderedByKey ==
    (vout.called /\ vout.fn = "sortTasks") =>
        LET active == SelectSeq(tasks, LAMBDA t : t.completed # Bool(TRUE))
        IN  /\ Len(page.rows) = Len(active)
            /\ \A i \in 1..Len(active) :
                   Cardinality({k \in 1..Len(page.rows) : page.rows[k].id = active[i].id}) = 1
            /\ \A i, j \in 1..Len(page.rows) :
                   i < j => InOrder(TaskOfRow(page.rows[i]), TaskOfRow(page.rows[j]),
                                    vin.field, vin.order)
            /\ tasks \in SortStores

\* C23: the sort of sortTasks applied to a sequence that the same sort, same field
\* and order, has returned gives the same sequence of ids, also when tasks have
\* equal keys.
C23_SortIdempotent ==
    (vout.called /\ vout.fn = "sortTasks" /\ vout.times = 2) =>
        IdsOf(vout.sorted) = IdsOf(vout.before)

(***************************************************************************)
(* QUERIES & STATISTICS between the calls that change the store            *)
(***************************************************************************)
\* getTasksByDateRange(startDate, endDate), the two dates as instants
getTasksByDateRange(startDate, endDate) ==
    SelectSeq(tasks, LAMBDA t : DueInstant(t) >= startDate /\ DueInstant(t) <= endDate)

\* getTasksByTag(tag): tasks.filter((t) => t.tag === tag)
getTasksByTag(tag) == SelectSeq(tasks, LAMBDA t : t.tag = tag)

\* getTasksByStatus(status): tasks.filter((t) => t.status === status)
getTasksByStatus(status) == SelectSeq(tasks, LAMBDA t : t.status = status)

\* what the function fn returns for arg, each from loadTasks() as it is now
Answer(fn, arg) ==
    CASE fn = "getTasksByDateRange" -> getTasksByDateRange(arg.startDate, arg.endDate)
      [] fn = "getTasksByTag" -> getTasksByTag(arg.tag)
      [] fn = "getTasksByStatus" -> getTasksByStatus(arg.status)
      [] fn = "getCompletedTasks" -> getCompletedTasks
      [] fn = "calculateTotalDuration" -> calculateTotalDuration(tasks)
      [] fn = "getTasksByTagGrouped" -> getTasksByTagGrouped
      [] fn = "getTaskCountsByTag" -> getTaskCountsByTag
      [] fn = "getTasksDueInDays" -> getTasksDueInDays(arg.days, arg.now, arg.zone)

\* a query that keeps the answer of the call before it
RunQuery_mut(fn, arg) ==
    IF vout.called /\ vout.fn = fn /\ vout.arg = arg THEN vout.result ELSE Answer(fn, arg)

\* a call of one of the query functions: const tasks = loadTasks() and the filter
RunQuery(fn, arg) == Answer(fn, arg)

Home == Str(<<"H","o","m","e">>)

QueryPool ==
    { [fn |-> "getTasksByDateRange",
       arg |-> [startDate |-> MakeDay(2026, 10, 30) * 24, endDate |-> MakeDay(2026, 11, 1) * 24]],
      [fn |-> "getTasksByTag", arg |-> [tag |-> Home]],
      [fn |-> "getTasksByStatus", arg |-> [status |-> Completed]],
      [fn |-> "getCompletedTasks", arg |-> [none |-> TRUE]],
      [fn |-> "calculateTotalDuration", arg |-> [none |-> TRUE]],
      [fn |-> "getTasksByTagGrouped", arg |-> [none |-> TRUE]],
      [fn |-> "getTaskCountsByTag", arg |-> [none |-> TRUE]],
      [fn |-> "getTasksDueInDays",
       arg |-> [days |-> 7, now |-> [day |-> MakeDay(2026, 10, 27), hour |-> 10], zone |-> 0]] }

Query ==
    /\ \E q \in QueryPool :
           vout' = [called |-> TRUE, fn |-> q.fn, arg |-> q.arg,
                    result |-> RunQuery(q.fn, q.arg)]
    /\ last' = [op |-> "query", ret |-> "none"]
    /\ UNCHANGED <<tasks, version, clock, calls, vin, page>>

NextQuery ==
    \/ AddTask
    \/ UpdateTask
    \/ CompleteTask
    \/ DeleteTask
    \/ Query

SpecQuery == Init /\ [][NextQuery]_vars

\* C24: a call of a query function leaves the stored tasks and the version as they
\* are, and what it returns is the function's answer over the tasks stored at that
\* moment, whatever calls of add, update, complete, delete and of queries came before.
C24_QueriesReadTheStore ==
    [][last'.op = "query" =>
          /\ tasks' = tasks
          /\ version' = version
          /\ vout'.result = Answer(vout'.fn, vout'.arg)]_vars

\* getCompletedTasks called after a task was added and completed returns that task
C24_Witness ==
    /\ last.op = "query"
    /\ calls >= 2
    /\ vout.fn = "getCompletedTasks"
    /\ Len(vout.result) = 1
    /\ Len(tasks) = 1

(***************************************************************************)
(* The order of the checks of validateTitle                                *)
(***************************************************************************)
\* the number of characters from the first to the last that is no white space
TrimmedLength(s) ==
    LET solid == {i \in 1..Len(s) : ~IsSpace(s[i])}
    IN  IF solid = {} THEN 0
        ELSE (CHOOSE i \in solid : \A j \in solid : j <= i)
             - (CHOOSE i \in solid : \A j \in solid : i <= j) + 1

\* the checks in the order stated, each with its reason
TitleChecks(s) ==
    << [fails |-> s = <<>>, reason |-> "Title is required"],
       [fails |-> TrimmedLength(s) < 3, reason |-> "Title must be at least 3 characters"],
       [fails |-> TrimmedLength(s) > 100, reason |-> "Title must not exceed 100 characters"],
       [fails |-> ~NoEdgeSpace(s), reason |-> "Title cannot have leading or trailing spaces"],
       [fails |-> ~NoSpaceRun(s), reason |-> "Title cannot contain consecutive spaces"],
       [fails |-> HasRepeatedWord(s), reason |-> "Title contains duplicate words"] >>

\* C25: the reason validateTitle gives is that of the first check that fails, in the
\* order required, trimmed length below 3, trimmed length above 100, raw string
\* different from the trimmed one, consecutive white space, duplicate word; "  ab "
\* gets the length reason and "abc " the leading-or-trailing-space reason.
C25_FirstFailingCheck ==
    (vin.fn = "validateTitle" /\ vout.called) =>
        LET checks == TitleChecks(vin.arg.s)
            failing == {k \in 1..Len(checks) : checks[k].fails}
        IN  /\ failing = {} => vout.valid /\ vout.error = ""
            /\ failing # {} =>
                   /\ ~vout.valid
                   /\ \E k \in failing :
                          /\ \A j \in failing : k <= j
                          /\ vout.error = checks[k].reason
            /\ vin.arg.s = <<" ", " ", "a", "b", " ">> =>
                   vout.error = "Title must be at least 3 characters"
            /\ vin.arg.s = <<"a", "b", "c", " ">> =>
                   vout.error = "Title cannot have leading or trailing spaces"

\* "  ab ", too short once trimmed and also with spaces at both ends, has been
\* rejected for its length
C25_Witness ==
    /\ vin.fn = "validateTitle" /\ vout.called
    /\ vin.arg.s = <<" ", " ", "a", "b", " ">>
    /\ ~NoEdgeSpace(vin.arg.s)
    /\ vout.error = "Title must be at least 3 characters"

(***************************************************************************)
(* A failed call and the stored tasks                                      *)
(***************************************************************************)
\* the call just made has reported that it failed
ReportsFailure(l) ==
    \/ l.op \in {"addTask", "updateTask"} /\ l.ret = "null"
    \/ l.op = "deleteTask" /\ l.ret = "false"
    \/ l.op = "importData" /\ l.ret = "failure"

\* C26: when addTask or updateTask returns null, or deleteTask or importData reports
\* failure, the stored tasks are what they were before the call, also when only one
\* of the two writes of saveTasks fails.
C26_FailureLeavesStore ==
    [][ReportsFailure(last') => tasks' = tasks]_vars

(***************************************************************************)
(* TIMELINE PAGE: the tag breakdown chart                                  *)
(***************************************************************************)
NotANumber == [t |-> "number", n |-> 0, nan |-> TRUE]

\* (tagDurations[task.tag] || 0) + parseInt(task.duration)
PlusDuration(v, task) ==
    LET left == IF IsTruthy(v) THEN v ELSE Num(0)
        d == parseInt(StringOf(task.duration))
    IN  IF left.t = "number"
        THEN (IF d.nan THEN NotANumber ELSE Num(left.n + d.n))
        ELSE Str(CountText(left)
                 \o (IF d.nan THEN <<"N", "a", "N">> ELSE StringOf(Num(d.n))))

\* tasks.forEach over the tasks that are not completed, from task i on: the
\* properties tagDurations owns and the order in which they were created
RECURSIVE DurationsFrom(_, _, _)
DurationsFrom(own, keys, i) ==
    IF i > Len(ActiveTasks) THEN [own |-> own, keys |-> keys]
    ELSE LET task == ActiveTasks[i]
             key == StringOf(task.tag)
         IN  DurationsFrom(Put(own, key, PlusDuration(Get(own, key), task)),
                           IF key \in DOMAIN own THEN keys ELSE Append(keys, key),
                           i + 1)

\* b[1] - a[1] > 0: a number only when both durations are numbers
LongerThan(b, a) ==
    /\ b.duration.t = "number" /\ a.duration.t = "number"
    /\ b.duration # NotANumber /\ a.duration # NotANumber
    /\ b.duration.n > a.duration.n

RECURSIVE InsertByDuration(_, _)
InsertByDuration(entry, sorted) ==
    IF sorted = <<>> THEN <<entry>>
    ELSE IF LongerThan(entry, Head(sorted)) THEN <<entry>> \o sorted
    ELSE <<Head(sorted)>> \o InsertByDuration(entry, Tail(sorted))

\* Object.entries(tagDurations).sort((a, b) => b[1] - a[1])
RECURSIVE SortByDuration(_)
SortByDuration(entries) ==
    IF entries = <<>> THEN <<>>
    ELSE InsertByDuration(entries[Len(entries)],
                          SortByDuration(SubSeq(entries, 1, Len(entries) - 1)))

\* updateTagBreakdown on the timeline page, where the chart container exists: the
\* message or the bars it leaves in the container, and whether it threw; reading
\* sorted[0][1] of an empty array is a TypeError, raised after the container was
\* emptied
updateTagBreakdown ==
    LET tagCounts == getTaskCountsByTag
        tagDurations == DurationsFrom(EmptyObject, <<>>, 1)
        sorted == SortByDuration([i \in 1..Len(tagDurations.keys) |->
                                     [tag |-> tagDurations.keys[i],
                                      duration |-> tagDurations.own[tagDurations.keys[i]]]])
    IN  IF DOMAIN tagCounts = {}
        THEN [threw |-> FALSE, message |-> "No active tasks", bars |-> <<>>]
        ELSE IF sorted = <<>>
        THEN [threw |-> TRUE, message |-> "", bars |-> <<>>]
        ELSE [threw |-> FALSE, message |-> "",
              bars |-> [i \in 1..Len(sorted) |->
                           [tag |-> sorted[i].tag, duration |-> sorted[i].duration,
                            maxDuration |-> sorted[1].duration]]]

UpdateTagBreakdown ==
    /\ LET r == updateTagBreakdown
       IN  vout' = [called |-> TRUE, fn |-> "updateTagBreakdown", threw |-> r.threw,
                    message |-> r.message, bars |-> r.bars]
    /\ last' = [op |-> "updateTagBreakdown", ret |-> "none"]
    /\ UNCHANGED <<tasks, version, clock, calls, vin, page>>

NextBreakdown ==
    \/ AddTask
    \/ CompleteTask
    \/ UncompleteTask
    \/ DeleteTask
    \/ UpdateTagBreakdown

SpecBreakdown == Init /\ [][NextBreakdown]_vars

\* C27: updateTagBreakdown does not throw on any store reached through addTask,
\* completeTask, uncompleteTask and deleteTask, and on a store that is not empty
\* but holds completed tasks only it shows the message "No active tasks".
C27_BreakdownNeverThrows ==
    last.op = "updateTagBreakdown" =>
        /\ ~vout.threw
        /\ (tasks # <<>> /\ ActiveTasks = <<>>) => vout.message = "No active tasks"

====
